---- MODULE Spec2Model ----
(***************************************************************************)
(* MCP video reader: the request handler of the server (tool handlers)     *)
(* and the VideoProcessor it drives.                                        *)
(*                                                                          *)
(* Durations are floats in the source.  Here a duration is an integer      *)
(* count of 1/DurScale seconds, so that non-integer durations exist; every *)
(* planned timestamp is an integer number of seconds, as in the source     *)
(* (i * frameInterval with an integer frameInterval).                      *)
(***************************************************************************)
EXTENDS Integers, Sequences, FiniteSets, TLC

\* ------------------------------------------------------------------ bounds
DurScale == 2
MaxDurU == 32
MaxCount == 12
MaxNow == 1
MaxFsChanges == 1
MaxTsLen == 6
MaxFaults == 1
MaxRequest == 100

\* ------------------------------------------------------- program constants
WARNING_TOKEN_THRESHOLD == 50000
MAX_WIDTH == 1920
DEFAULT_FRAME_COUNT == 10
BATCH_LIMIT == 5
LONG_VIDEO_SECONDS == 300
BASE_METADATA_TOKENS == 150
DEFAULT_MAX_FRAMES == 8
ANALYZE_FRAME_CAP == 15
SHORT_VIDEO_SECONDS == 30
MEDIUM_VIDEO_SECONDS == 300

\* ---------------------------------------------------------------- helpers
Min(a, b) == IF a < b THEN a ELSE b
Max(a, b) == IF a > b THEN a ELSE b

\* Math.round(num / den) for num >= 0, den > 0: halves round up.
JsRound(num, den) == (2 * num + den) \div (2 * den)

\* Math.ceil(num / den) for num >= 0, den > 0.
JsCeil(num, den) == (num + den - 1) \div den

\* Math.floor(a / b) for b > 0 and the JavaScript remainder a % b, whose sign
\* is the sign of a.
JsFloorDiv(a, b) == a \div b
JsRem(a, b) == IF a >= 0 THEN a % b ELSE -((-a) % b)

\* formatTimestamp(seconds): the text `${mins}:${secs padded to 2}` is kept as
\* the pair <<mins, secs>> it prints.
formatTimestamp(seconds) == <<JsFloorDiv(seconds, 60), JsRem(seconds, 60)>>

\* formatTimestamp applied to a duration given in 1/DurScale seconds:
\* Math.floor(d / 60) and Math.floor(d % 60) of the float d.
formatDuration(duration) ==
    <<JsFloorDiv(duration, 60 * DurScale), JsFloorDiv(duration % (60 * DurScale), DurScale)>>

\* estimateFrameTokens(width, height), width > 0:
\*   ceil(((ew * eh * 0.1) / 1024) * 1.33 * 1000 * 0.25) = ceil(ew * eh * 133 / 4096)
estimateFrameTokens(width, height) ==
    LET effectiveWidth == Min(width, MAX_WIDTH)
        effectiveHeight == JsRound(effectiveWidth * height, width)
    IN  JsCeil(effectiveWidth * effectiveHeight * 133, 4096)

\* The resolution text `${w}x${h}` of a frame reference, kept as <<w, h>>.
frameResolution(metadata) ==
    <<Min(metadata.width, MAX_WIDTH),
      JsRound(Min(metadata.width, MAX_WIDTH) * metadata.height, metadata.width)>>

\* Math.max(1, Math.floor(duration / frameCount)).  For frameCount < 0 the
\* quotient is <= 0 and the result is 1.  For frameCount = 0 the source gets
\* Infinity or NaN, which the loop never reads (its guard i < 0 fails first);
\* 0 stands for it here.
\* Faulty variant: rounds the quotient up.
frameIntervalCeil(duration, frameCount) ==
    IF frameCount > 0 THEN Max(1, JsCeil(duration, DurScale * frameCount))
    ELSE IF frameCount < 0 THEN 1
    ELSE 0
frameIntervalOf(duration, frameCount) ==
    IF frameCount > 0 THEN Max(1, JsFloorDiv(duration, DurScale * frameCount))
    ELSE IF frameCount < 0 THEN 1
    ELSE 0

FrameRef(metadata, i, frameInterval) ==
    [index |-> i,
     timestamp |-> i * frameInterval,
     timestampFormatted |-> formatTimestamp(i * frameInterval),
     resolution |-> frameResolution(metadata),
     estimatedTokens |-> estimateFrameTokens(metadata.width, metadata.height)]

\* The loop guard i * frameInterval < metadata.duration, the duration being
\* in 1/DurScale seconds.
\* (beforeOrAtEnd: faulty variant that keeps a timestamp equal to the duration.)
beforeOrAtEnd(timestamp, duration) == timestamp * DurScale <= duration
beforeEnd(timestamp, duration) == timestamp * DurScale < duration

\* The loop of getVideoOverview that fills availableFrames.
RECURSIVE planLoop(_, _, _, _)
planLoop(metadata, frameCount, i, availableFrames) ==
    IF /\ i < frameCount
       /\ beforeEnd(i * frameIntervalOf(metadata.duration, frameCount), metadata.duration)
    THEN planLoop(metadata, frameCount, i + 1,
                  Append(availableFrames,
                         FrameRef(metadata, i, frameIntervalOf(metadata.duration, frameCount))))
    ELSE availableFrames

\* const availableFrames = []: the array the loop starts from.
\* (cachedFrameArray: faulty variant that goes on from the cached array.)
cachedFrameArray(cache, videoPath) ==
    IF cache[videoPath] # <<>> THEN cache[videoPath][1] ELSE <<>>
newFrameArray(cache, videoPath) == <<>>

\* frames.reduce((sum, f) => sum + f.estimatedTokens, 0)
RECURSIVE totalFrameTokens(_)
totalFrameTokens(frames) ==
    IF frames = <<>> THEN 0
    ELSE Head(frames).estimatedTokens + totalFrameTokens(Tail(frames))

\* the comparator (a, b) => b.priority - a.priority
\* (comparePriorityAscending: faulty variant with the operands swapped.)
comparePriorityAscending(a, b) == a.priority - b.priority
comparePriority(a, b) == b.priority - a.priority

\* Array.prototype.sort is stable: an element goes after every element the
\* comparator does not put behind it.
RECURSIVE insertSorted(_, _)
insertSorted(sorted, h) ==
    IF sorted = <<>> THEN <<h>>
    ELSE IF comparePriority(Head(sorted), h) <= 0
         THEN <<Head(sorted)>> \o insertSorted(Tail(sorted), h)
         ELSE <<h>> \o sorted

RECURSIVE sortHints(_)
sortHints(hints) ==
    IF hints = <<>> THEN <<>>
    ELSE insertSorted(sortHints(SubSeq(hints, 1, Len(hints) - 1)), hints[Len(hints)])

\* The test totalFrameTokens > WARNING_TOKEN_THRESHOLD
\* (warningReaches: faulty variant that warns at the threshold already.)
warningReaches(total) == total >= WARNING_TOKEN_THRESHOLD
warningExceeds(total) == total > WARNING_TOKEN_THRESHOLD

\* Faulty variant of pushedHints: no action hint when nothing was planned.
pushedHintsForFrames(metadata, frames) ==
    (IF warningExceeds(totalFrameTokens(frames))
     THEN <<[type |-> "warning", suggestedTool |-> "get_frame", priority |-> 10]>>
     ELSE <<>>)
    \o (IF metadata.duration > LONG_VIDEO_SECONDS * DurScale
        THEN <<[type |-> "suggestion", suggestedTool |-> "get_frame", priority |-> 8]>>
        ELSE <<>>)
    \o (IF metadata.hasAudio
        THEN <<[type |-> "info", suggestedTool |-> "extract_audio", priority |-> 5]>>
        ELSE <<>>)
    \o (IF frames # <<>>
        THEN <<[type |-> "action", suggestedTool |-> "get_frame", priority |-> 3]>>
        ELSE <<>>)

\* The hints of generateContextHints in the order they are pushed.
pushedHints(metadata, frames) ==
    (IF warningExceeds(totalFrameTokens(frames))
     THEN <<[type |-> "warning", suggestedTool |-> "get_frame", priority |-> 10]>>
     ELSE <<>>)
    \o (IF metadata.duration > LONG_VIDEO_SECONDS * DurScale
        THEN <<[type |-> "suggestion", suggestedTool |-> "get_frame", priority |-> 8]>>
        ELSE <<>>)
    \o (IF metadata.hasAudio
        THEN <<[type |-> "info", suggestedTool |-> "extract_audio", priority |-> 5]>>
        ELSE <<>>)
    \o <<[type |-> "action", suggestedTool |-> "get_frame", priority |-> 3]>>

generateContextHints(metadata, frames) == sortHints(pushedHints(metadata, frames))

\* generateAnalysisHints.  A number of seconds that need not be whole is kept
\* as the fraction <<numerator, denominator>>.
\* Math.max(1, metadata.duration / 10)
shortInterval(duration) ==
    IF duration > 10 * DurScale THEN <<duration, 10 * DurScale>> ELSE <<1, 1>>

\* The test metadata.duration < 30 of the first branch.
\* (isShortBelowMinute: faulty variant that draws the line at one minute.)
isShortBelowMinute(duration) == duration < 2 * SHORT_VIDEO_SECONDS * DurScale
isShort(duration) == duration < SHORT_VIDEO_SECONDS * DurScale

durationHint(duration) ==
    IF isShort(duration)
    THEN [aspect |-> "duration", maxFrames |-> 10, interval |-> shortInterval(duration)]
    ELSE IF duration < MEDIUM_VIDEO_SECONDS * DurScale
    THEN [aspect |-> "duration", maxFrames |-> 15,
          interval |-> <<JsFloorDiv(duration, 15 * DurScale), 1>>]
    ELSE [aspect |-> "duration", maxFrames |-> 20,
          interval |-> <<JsFloorDiv(duration, 20 * DurScale), 1>>]

\* The test metadata.width > 1920 of the resolution hint.
\* (isResizedFrom: faulty variant that includes the width 1920.)
isResizedFrom(width) == width >= 1920
isResized(width) == width > 1920

generateAnalysisHints(metadata) ==
    <<durationHint(metadata.duration)>>
    \o (IF isResized(metadata.width)
        THEN <<[aspect |-> "resolution", maxWidth |-> 1920]>> ELSE <<>>)
    \o (IF metadata.hasAudio THEN <<[aspect |-> "audio"]>> ELSE <<>>)

\* The part of getMetadataSummary's result kept here.
metadataSummary(metadata) ==
    [durationFormatted |-> formatDuration(metadata.duration),
     resolution |-> <<metadata.width, metadata.height>>,
     hasAudio |-> metadata.hasAudio,
     analysisHints |-> generateAnalysisHints(metadata)]

\* ------------------------------------------------------------------- state
Slots == {1, 2}

VideoPaths == {"a.mp4", "b.mp4"}
AllPaths == VideoPaths \cup {"missing.mp4"}

NoMeta == [duration |-> 0, width |-> 0, height |-> 0, hasAudio |-> FALSE]
Absent == [kind |-> "absent", meta |-> NoMeta]
NotVideo == [kind |-> "notvideo", meta |-> NoMeta]
Video(m) == [kind |-> "video", meta |-> m]

\* 10 s of 1280x720 with audio; 4.5 s of 1920x1080 without.
MetaA == [duration |-> 10 * DurScale, width |-> 1280, height |-> 720, hasAudio |-> TRUE]
MetaB == [duration |-> 4 * DurScale + 1, width |-> 1920, height |-> 1080, hasAudio |-> FALSE]

NoArgs == [tool |-> "none"]
NoResp == [success |-> FALSE, pending |-> TRUE]
\* How often a call invoked each collaborator, and which of them failed on it.
NoCalls ==
    [access |-> 0, probe |-> 0, mkdir |-> 0, decode |-> 0, codec |-> 0, audio |-> 0,
     failed |-> {}]
NoFrame == <<>>
NoDir == <<>>

VARIABLES
    files,       \* the file system under the video paths: path -> Absent, NotVideo, Video(m)
    now,         \* Date.now()
    tempDir,     \* whether os.tmpdir()/mcp-video-reader exists
    tempFiles,   \* frame-<t>.jpeg in tempDir: t -> NoFrame (no such file) or <<videoPath, timestamp>>
    frameCache,  \* VideoProcessor.frameCache: path -> <<>> (no entry) or <<availableFrames>>
    pc,          \* slot -> where the request handler of that slot stands
    args,        \* slot -> request.params of the call
    loc,         \* slot -> the locals that live across an await
    resp,        \* slot -> the response the handler returned
    calls,       \* slot -> how often the call invoked each collaborator
    tasks,       \* slot -> the extractSingleFrame calls the handler started
    fsChanges,   \* how often the environment replaced a video file
    faults,      \* how often ffmpeg or sharp failed
    frameDirs,   \* frames-<t> in tempDir: t -> NoDir or <<the set of i with frame-<i>.png in it>>
    audioFiles   \* audio-<t>.mp3 in tempDir: t -> NoFrame (no such file) or <<videoPath>>

vars == <<files, now, tempDir, tempFiles, frameCache, pc, args, loc, resp, calls, tasks, fsChanges,
          faults, frameDirs, audioFiles>>

fsVars == <<files, fsChanges>>
tempVars == <<now, tempDir, tempFiles>>
mediaVars == <<frameDirs, audioFiles>>

InitWith(fs) ==
    /\ files = fs
    /\ now = 0
    /\ tempDir = FALSE
    /\ tempFiles = [t \in 0..MaxNow |-> NoFrame]
    /\ frameCache = [p \in AllPaths |-> <<>>]
    /\ pc = [r \in Slots |-> "idle"]
    /\ args = [r \in Slots |-> NoArgs]
    /\ loc = [r \in Slots |-> NoMeta]
    /\ resp = [r \in Slots |-> NoResp]
    /\ calls = [r \in Slots |-> NoCalls]
    /\ tasks = [r \in Slots |-> <<>>]
    /\ fsChanges = 0
    /\ faults = 0
    /\ frameDirs = [t \in 0..MaxNow |-> NoDir]
    /\ audioFiles = [t \in 0..MaxNow |-> NoFrame]

Init ==
    InitWith([p \in AllPaths |->
                IF p = "a.mp4" THEN Video(MetaA)
                ELSE IF p = "b.mp4" THEN Video(MetaB) ELSE Absent])

\* const { frameCount = 10 } = ...: the argument is <<>> when the caller gave none.
frameCountOf(arg) == IF arg = <<>> THEN DEFAULT_FRAME_COUNT ELSE arg[1]

Count(r, what) == [calls EXCEPT ![r][what] = @ + 1]
\* The collaborator `what` was invoked and, when ok is FALSE, failed.
CountResult(r, what, ok) ==
    [calls EXCEPT ![r][what] = @ + 1, ![r].failed = IF ok THEN @ ELSE @ \cup {what}]
Failed(r, what) == [calls EXCEPT ![r].failed = @ \cup {what}]

\* checkFile(filePath): whether fs.access(filePath) succeeds.
\* (checkFileAlways: faulty variant that never reports a missing file.)
checkFileAlways(fs, filePath) == TRUE
checkFile(fs, filePath) == fs[filePath].kind # "absent"

FileNotFound(videoPath) ==
    [success |-> FALSE, error |-> "File not found", path |-> videoPath, isError |-> FALSE]
\* catch (error) { return { ... success: false, error: message ..., isError: true } }
\* (Uncaught: faulty variant without the catch; the handler's promise rejects
\* and no envelope is returned.)
Uncaught(message) == [success |-> FALSE, pending |-> TRUE]
Caught(message) ==
    [success |-> FALSE, error |-> message, isError |-> TRUE]

\* ------------------------------------------------------ get_video_overview
\* A get_video_overview request arrives; the handler runs up to await checkFile.
StartOverview(r, videoPath, frameCount) ==
    /\ pc[r] = "idle"
    /\ pc' = [pc EXCEPT ![r] = "checkFile"]
    /\ args' = [args EXCEPT ![r] = [tool |-> "get_video_overview", videoPath |-> videoPath,
                                    frameCount |-> frameCount]]
    /\ UNCHANGED <<mediaVars, faults, fsVars, tempVars, frameCache, loc, resp, calls, tasks>>

\* fs.access settles; a missing file ends the call, otherwise getVideoOverview
\* starts its first getMetadata.
OverviewCheckFile(r) ==
    /\ pc[r] = "checkFile"
    /\ args[r].tool = "get_video_overview"
    /\ calls' = Count(r, "access")
    /\ IF ~checkFile(files, args[r].videoPath)
       THEN /\ resp' = [resp EXCEPT ![r] = FileNotFound(args[r].videoPath)]
            /\ pc' = [pc EXCEPT ![r] = "done"]
       ELSE /\ pc' = [pc EXCEPT ![r] = "getMetadata"]
            /\ UNCHANGED resp
    /\ UNCHANGED <<mediaVars, faults, fsVars, tempVars, frameCache, args, loc, tasks>>

\* ffprobe answers the first getMetadata of getVideoOverview.
OverviewGetMetadata(r) ==
    /\ pc[r] = "getMetadata"
    /\ args[r].tool = "get_video_overview"
    /\ calls' = CountResult(r, "probe", files[args[r].videoPath].kind = "video")
    /\ IF files[args[r].videoPath].kind = "video"
       THEN /\ loc' = [loc EXCEPT ![r] = files[args[r].videoPath].meta]
            /\ pc' = [pc EXCEPT ![r] = "getMetadataSummary"]
            /\ UNCHANGED resp
       ELSE /\ resp' = [resp EXCEPT ![r] = Caught("metadata")]
            /\ pc' = [pc EXCEPT ![r] = "done"]
            /\ UNCHANGED loc
    /\ UNCHANGED <<mediaVars, faults, fsVars, tempVars, frameCache, args, tasks>>

\* availableFrames as getVideoOverview builds it.
planFrames(cache, videoPath, metadata, frameCount) ==
    planLoop(metadata, frameCount, 0, newFrameArray(cache, videoPath))

\* this.frameCache.set(videoPath, availableFrames); an entry is kept as the
\* one-element sequence of its value, <<>> being "no entry".
\* Faulty variants of cacheSet: one keeps an existing entry, one writes the
\* new plan over the old array element by element.
cacheSetIfAbsent(cache, videoPath, availableFrames) ==
    IF cache[videoPath] = <<>> THEN [cache EXCEPT ![videoPath] = <<availableFrames>>] ELSE cache
cacheMerge(cache, videoPath, availableFrames) ==
    IF cache[videoPath] = <<>> THEN [cache EXCEPT ![videoPath] = <<availableFrames>>]
    ELSE [cache EXCEPT ![videoPath] =
            <<[k \in 1..Max(Len(availableFrames), Len(cache[videoPath][1])) |->
                 IF k <= Len(availableFrames) THEN availableFrames[k]
                 ELSE cache[videoPath][1][k]]>>]
\* (cacheReset: faulty variant that drops every other entry.)
cacheReset(cache, videoPath, availableFrames) ==
    [p \in DOMAIN cache |-> IF p = videoPath THEN <<availableFrames>> ELSE <<>>]
cacheSet(cache, videoPath, availableFrames) ==
    [cache EXCEPT ![videoPath] = <<availableFrames>>]

\* What the rest of getVideoOverview invokes once the summary is there:
\* nothing but pure functions.
\* Faulty variant of overviewCalls: decodes every planned frame.
overviewCallsEager(r, availableFrames) ==
    [calls EXCEPT ![r].probe = @ + 1, ![r].decode = @ + Len(availableFrames)]
overviewCalls(r, availableFrames) == Count(r, "probe")

\* ffprobe answers the getMetadata of getMetadataSummary; the rest of
\* getVideoOverview and of the handler run without another await.
OverviewFinish(r) ==
    /\ pc[r] = "getMetadataSummary"
    /\ args[r].tool = "get_video_overview"
    /\ pc' = [pc EXCEPT ![r] = "done"]
    /\ IF files[args[r].videoPath].kind = "video"
       THEN LET videoPath == args[r].videoPath
                metadata == loc[r]
                summary == metadataSummary(files[videoPath].meta)
                availableFrames ==
                    planFrames(frameCache, videoPath, metadata, frameCountOf(args[r].frameCount))
            IN  /\ frameCache' = cacheSet(frameCache, videoPath, availableFrames)
                /\ calls' = overviewCalls(r, availableFrames)
                /\ resp' = [resp EXCEPT ![r] =
                      [success |-> TRUE,
                       overview |-> [filename |-> videoPath,
                                     metadata |-> summary,
                                     audio |-> [available |-> metadata.hasAudio,
                                                durationSeconds |->
                                                    IF metadata.hasAudio
                                                    THEN <<metadata.duration>> ELSE <<>>],
                                     availableFrames |-> availableFrames],
                       contextHints |-> generateContextHints(metadata, availableFrames)]]
       ELSE /\ resp' = [resp EXCEPT ![r] = Caught("metadata")]
            /\ calls' = CountResult(r, "probe", FALSE)
            /\ UNCHANGED frameCache
    /\ UNCHANGED <<mediaVars, faults, fsVars, tempVars, args, loc, tasks>>

\* ------------------------------------------------------ extractSingleFrame
\* A call of extractSingleFrame(videoPath, timestamp): it has run up to
\* await this.ensureTempDir(), whose fs.mkdir is under way.
\* early records that the call settled while a call started before it by the
\* same handler was still running.
newTask(timestamp) ==
    [timestamp |-> timestamp, pc |-> "mkdir", framePath |-> -1, image |-> NoFrame,
     failed |-> FALSE, early |-> FALSE]

SetTask(r, k, t) == [tasks EXCEPT ![r][k] = t]

TaskAt(r, k, where) ==
    /\ k \in 1..Len(tasks[r])
    /\ tasks[r][k].pc = where

\* fs.mkdir settles (an error is swallowed by ensureTempDir); framePath is
\* named after Date.now() and ffmpeg is started on it.
TaskMkdirDone(r, k) ==
    /\ TaskAt(r, k, "mkdir")
    /\ tempDir' = TRUE
    /\ tasks' = SetTask(r, k, [tasks[r][k] EXCEPT !.pc = "ffmpeg", !.framePath = now])
    /\ calls' = Count(r, "decode")
    /\ UNCHANGED <<mediaVars, faults, fsVars, now, tempFiles, frameCache, pc, args, loc, resp>>

\* ffmpeg(videoPath).seekInput(timestamp).frames(1): the content of the
\* output file when ffmpeg ends without an error.  The source passes the
\* timestamp on unchecked.  A seek position at or after the end of the video
\* leaves no frame to decode and ffmpeg writes no file (NoFrame); a negative
\* position starts at the first frame.
decodeFrameAt(fs, videoPath, timestamp) ==
    IF timestamp * DurScale >= fs[videoPath].meta.duration THEN NoFrame
    ELSE <<videoPath, Max(timestamp, 0)>>

\* ffmpeg ends: the frame it decoded, if any, is in framePath.
TaskFfmpegEnd(r, k) ==
    /\ TaskAt(r, k, "ffmpeg")
    /\ files[args[r].videoPath].kind = "video"
    /\ LET decoded == decodeFrameAt(files, args[r].videoPath, tasks[r][k].timestamp)
       IN  tempFiles' = IF decoded = NoFrame THEN tempFiles
                        ELSE [tempFiles EXCEPT ![tasks[r][k].framePath] = decoded]
    /\ tasks' = SetTask(r, k, [tasks[r][k] EXCEPT !.pc = "readFile"])
    /\ UNCHANGED <<mediaVars, faults, fsVars, now, tempDir, frameCache, pc, args, loc, resp, calls>>

\* Whether ffmpeg must, or may, report an error without anything else going
\* wrong: the input is no video, or (in some ffmpeg versions) no frame was
\* written.
decoderRefuses(fs, videoPath, timestamp) ==
    \/ fs[videoPath].kind # "video"
    \/ decodeFrameAt(fs, videoPath, timestamp) = NoFrame

\* ffmpeg reports an error: the promise rejects and the finally block runs.
TaskFfmpegError(r, k) ==
    /\ TaskAt(r, k, "ffmpeg")
    /\ LET refused == decoderRefuses(files, args[r].videoPath, tasks[r][k].timestamp)
       IN  /\ refused \/ faults < MaxFaults
           /\ faults' = IF refused THEN faults ELSE faults + 1
    /\ tasks' = SetTask(r, k, [tasks[r][k] EXCEPT !.pc = "rm", !.failed = TRUE])
    /\ calls' = Failed(r, "decode")
    /\ UNCHANGED <<mediaVars, fsVars, tempVars, frameCache, pc, args, loc, resp>>

\* fs.readFile(framePath) settles and, if it gave the image, sharp runs on the
\* buffer: metadata, resize, encode, metadata, each of which may throw (ok
\* tells whether none did).  sharp touches nothing but the buffer, so its
\* awaits are not separate steps.
TaskReadFile(r, k, ok) ==
    /\ TaskAt(r, k, "readFile")
    /\ ok \/ (faults < MaxFaults /\ tempFiles[tasks[r][k].framePath] # NoFrame)
    /\ faults' = IF ok THEN faults ELSE faults + 1
    /\ IF tempFiles[tasks[r][k].framePath] # NoFrame
       THEN /\ tasks' = SetTask(r, k, [tasks[r][k] EXCEPT
                          !.pc = "rm", !.failed = ~ok,
                          !.image = IF ok THEN tempFiles[tasks[r][k].framePath] ELSE NoFrame])
            /\ calls' = CountResult(r, "codec", ok)
       ELSE /\ tasks' = SetTask(r, k, [tasks[r][k] EXCEPT !.pc = "rm", !.failed = TRUE])
            /\ UNCHANGED calls
    /\ UNCHANGED <<mediaVars, fsVars, tempVars, frameCache, pc, args, loc, resp>>

\* The FrameData a settled extractSingleFrame call returned.
frameData(t) ==
    [timestamp |-> t.timestamp,
     timestampFormatted |-> formatTimestamp(t.timestamp),
     image |-> t.image]

\* The results Promise.all resolves with: in the order of the calls.
\* (framesAsSettled: faulty variant that puts first what settled first.)
framesAsSettled(ts) ==
    LET Early(t) == t.early
        Late(t) == ~t.early
        settled == SelectSeq(ts, Early) \o SelectSeq(ts, Late)
    IN  [k \in 1..Len(ts) |-> frameData(settled[k])]
allFrameData(ts) == [k \in 1..Len(ts) |-> frameData(ts[k])]

getFrameResponse(frames) == [success |-> TRUE, frame |-> frames[1]]

\* The text part of a successful get_frames_batch response.
batchResponse(timestamps, frames) ==
    [success |-> TRUE,
     framesExtracted |-> Len(frames),
     totalTimestampsRequested |-> Len(timestamps),
     limited |-> Len(timestamps) > BATCH_LIMIT,
     frames |-> frames]

successResponse(a, frames) ==
    IF a.tool = "get_frame" THEN getFrameResponse(frames)
    ELSE batchResponse(a.timestamps, frames)

\* finally { await fs.rm(framePath, { force: true }) }
\* (rmFramePathOnSuccess: faulty variant that cleans up on the success path only.)
rmFramePathOnSuccess(tf, task) ==
    IF task.failed THEN tf ELSE [tf EXCEPT ![task.framePath] = NoFrame]
rmFramePath(tf, task) == [tf EXCEPT ![task.framePath] = NoFrame]

\* finally: fs.rm(framePath, {force}) settles and the call resolves or
\* rejects.  The handler awaits the call (get_frame) or Promise.all of the
\* calls (get_frames_batch): it goes on in the same turn when this was the
\* last call to resolve, or the first to reject.
TaskRm(r, k) ==
    /\ TaskAt(r, k, "rm")
    /\ tempFiles' = rmFramePath(tempFiles, tasks[r][k])
    /\ LET settled == [tasks[r][k] EXCEPT
                          !.pc = IF tasks[r][k].failed THEN "rejected" ELSE "resolved",
                          !.early = \E j \in 1..(k - 1) :
                                       tasks[r][j].pc \notin {"resolved", "rejected"}]
           after == [tasks[r] EXCEPT ![k] = settled]
       IN  /\ tasks' = [tasks EXCEPT ![r] = after]
           /\ IF pc[r] = "extract" /\ settled.pc = "rejected"
              THEN /\ resp' = [resp EXCEPT ![r] = Caught("extract")]
                   /\ pc' = [pc EXCEPT ![r] = "done"]
              ELSE IF pc[r] = "extract" /\ \A j \in 1..Len(after) : after[j].pc = "resolved"
              THEN /\ resp' = [resp EXCEPT ![r] = successResponse(args[r], allFrameData(after))]
                   /\ pc' = [pc EXCEPT ![r] = "done"]
              ELSE UNCHANGED <<pc, resp>>
    /\ UNCHANGED <<mediaVars, faults, fsVars, now, tempDir, frameCache, args, loc, calls>>

\* ---------------------------------------------------------------- get_frame
StartGetFrame(r, videoPath, timestamp) ==
    /\ pc[r] = "idle"
    /\ pc' = [pc EXCEPT ![r] = "checkFile"]
    /\ args' = [args EXCEPT ![r] = [tool |-> "get_frame", videoPath |-> videoPath,
                                    timestamp |-> timestamp]]
    /\ UNCHANGED <<mediaVars, faults, fsVars, tempVars, frameCache, loc, resp, calls, tasks>>

\* fs.access settles; extractSingleFrame is called and stops at its first await.
GetFrameCheckFile(r) ==
    /\ pc[r] = "checkFile"
    /\ args[r].tool = "get_frame"
    /\ IF ~checkFile(files, args[r].videoPath)
       THEN /\ resp' = [resp EXCEPT ![r] = FileNotFound(args[r].videoPath)]
            /\ pc' = [pc EXCEPT ![r] = "done"]
            /\ calls' = Count(r, "access")
            /\ UNCHANGED tasks
       ELSE /\ pc' = [pc EXCEPT ![r] = "extract"]
            /\ tasks' = [tasks EXCEPT ![r] = <<newTask(args[r].timestamp)>>]
            /\ calls' = [calls EXCEPT ![r].access = @ + 1, ![r].mkdir = @ + 1]
            /\ UNCHANGED resp
    /\ UNCHANGED <<mediaVars, faults, fsVars, tempVars, frameCache, args, loc>>

\* --------------------------------------------------------- get_frames_batch
StartBatch(r, videoPath, timestamps) ==
    /\ pc[r] = "idle"
    /\ pc' = [pc EXCEPT ![r] = "checkFile"]
    /\ args' = [args EXCEPT ![r] = [tool |-> "get_frames_batch", videoPath |-> videoPath,
                                    timestamps |-> timestamps]]
    /\ UNCHANGED <<mediaVars, faults, fsVars, tempVars, frameCache, loc, resp, calls, tasks>>

\* timestamps.slice(0, 5)
\* (sliceAll: faulty variant without the limit.)
sliceAll(timestamps) == timestamps
limitTimestamps(timestamps) == SubSeq(timestamps, 1, Min(Len(timestamps), BATCH_LIMIT))

\* fs.access settles; every limited timestamp gets its extractSingleFrame
\* call, each stopping at its first await.  Promise.all of no call resolves
\* at once.
BatchCheckFile(r) ==
    /\ pc[r] = "checkFile"
    /\ args[r].tool = "get_frames_batch"
    /\ IF ~checkFile(files, args[r].videoPath)
       THEN /\ resp' = [resp EXCEPT ![r] = FileNotFound(args[r].videoPath)]
            /\ pc' = [pc EXCEPT ![r] = "done"]
            /\ calls' = Count(r, "access")
            /\ UNCHANGED tasks
       ELSE LET limitedTimestamps == limitTimestamps(args[r].timestamps)
            IN  /\ tasks' = [tasks EXCEPT ![r] =
                      [k \in 1..Len(limitedTimestamps) |-> newTask(limitedTimestamps[k])]]
                /\ calls' = [calls EXCEPT ![r].access = @ + 1,
                                          ![r].mkdir = @ + Len(limitedTimestamps)]
                /\ IF limitedTimestamps = <<>>
                   THEN /\ resp' = [resp EXCEPT ![r] = batchResponse(args[r].timestamps, <<>>)]
                        /\ pc' = [pc EXCEPT ![r] = "done"]
                   ELSE /\ pc' = [pc EXCEPT ![r] = "extract"]
                        /\ UNCHANGED resp
    /\ UNCHANGED <<mediaVars, faults, fsVars, tempVars, frameCache, args, loc>>

\* ------------------------------------------------------ get_video_metadata
StartMetadata(r, videoPath) ==
    /\ pc[r] = "idle"
    /\ pc' = [pc EXCEPT ![r] = "checkFile"]
    /\ args' = [args EXCEPT ![r] = [tool |-> "get_video_metadata", videoPath |-> videoPath]]
    /\ UNCHANGED <<mediaVars, faults, fsVars, tempVars, frameCache, loc, resp, calls, tasks>>

\* The await checkFile of the tools that go on with a probe.
ProbingTools ==
    {"get_video_metadata", "estimate_analysis_cost", "extract_audio", "analyze_video_full"}

ProbeCheckFile(r) ==
    /\ pc[r] = "checkFile"
    /\ args[r].tool \in ProbingTools
    /\ calls' = Count(r, "access")
    /\ IF ~checkFile(files, args[r].videoPath)
       THEN /\ resp' = [resp EXCEPT ![r] = FileNotFound(args[r].videoPath)]
            /\ pc' = [pc EXCEPT ![r] = "done"]
       ELSE /\ pc' = [pc EXCEPT ![r] =
                        IF args[r].tool = "analyze_video_full" THEN "estimateTokens"
                        ELSE "getMetadata"]
            /\ UNCHANGED resp
    /\ UNCHANGED <<mediaVars, faults, fsVars, tempVars, frameCache, args, loc, tasks>>

\* ffprobe answers processor.getMetadata(videoPath) of get_video_metadata.
MetadataGetMetadata(r) ==
    /\ pc[r] = "getMetadata"
    /\ args[r].tool = "get_video_metadata"
    /\ calls' = CountResult(r, "probe", files[args[r].videoPath].kind = "video")
    /\ IF files[args[r].videoPath].kind = "video"
       THEN /\ loc' = [loc EXCEPT ![r] = files[args[r].videoPath].meta]
            /\ pc' = [pc EXCEPT ![r] = "getMetadataSummary"]
            /\ UNCHANGED resp
       ELSE /\ resp' = [resp EXCEPT ![r] = Caught("metadata")]
            /\ pc' = [pc EXCEPT ![r] = "done"]
            /\ UNCHANGED loc
    /\ UNCHANGED <<mediaVars, faults, fsVars, tempVars, frameCache, args, tasks>>

\* ffprobe answers the getMetadata of getMetadataSummary; the handler answers.
MetadataFinish(r) ==
    /\ pc[r] = "getMetadataSummary"
    /\ args[r].tool = "get_video_metadata"
    /\ pc' = [pc EXCEPT ![r] = "done"]
    /\ calls' = CountResult(r, "probe", files[args[r].videoPath].kind = "video")
    /\ IF files[args[r].videoPath].kind = "video"
       THEN LET summary == metadataSummary(files[args[r].videoPath].meta)
            IN  resp' = [resp EXCEPT ![r] =
                    [success |-> TRUE,
                     filename |-> args[r].videoPath,
                     metadata |-> [duration |-> summary.durationFormatted,
                                   durationSeconds |-> loc[r].duration,
                                   resolution |-> summary.resolution,
                                   hasAudio |-> loc[r].hasAudio],
                     analysisHints |-> summary.analysisHints]]
       ELSE resp' = [resp EXCEPT ![r] = Caught("metadata")]
    /\ UNCHANGED <<mediaVars, faults, fsVars, tempVars, frameCache, args, loc, tasks>>

\* -------------------------------------------------- estimate_analysis_cost
\* The test total > WARNING_TOKEN_THRESHOLD of estimateTokens.
\* (estimateReaches: faulty variant that warns at the threshold itself.)
estimateReaches(total) == total >= WARNING_TOKEN_THRESHOLD
estimateExceeds(total) == total > WARNING_TOKEN_THRESHOLD

\* estimateTokens once getMetadata has answered; warning tells whether the
\* warning text is set.
\* (estimateTokensOfOneFrame: faulty variant that leaves frameCount out of the total.)
estimateTokensOfOneFrame(metadata, frameCount) ==
    LET perFrameTokens == estimateFrameTokens(metadata.width, metadata.height)
        total == BASE_METADATA_TOKENS + perFrameTokens
    IN  [metadata |-> BASE_METADATA_TOKENS,
         perFrame |-> perFrameTokens,
         total |-> total,
         warning |-> estimateExceeds(total)]
estimateTokens(metadata, frameCount) ==
    LET perFrameTokens == estimateFrameTokens(metadata.width, metadata.height)
        total == BASE_METADATA_TOKENS + frameCount * perFrameTokens
    IN  [metadata |-> BASE_METADATA_TOKENS,
         perFrame |-> perFrameTokens,
         total |-> total,
         warning |-> estimateExceeds(total)]

StartEstimate(r, videoPath, frameCount) ==
    /\ pc[r] = "idle"
    /\ pc' = [pc EXCEPT ![r] = "checkFile"]
    /\ args' = [args EXCEPT ![r] = [tool |-> "estimate_analysis_cost", videoPath |-> videoPath,
                                    frameCount |-> frameCount]]
    /\ UNCHANGED <<mediaVars, faults, fsVars, tempVars, frameCache, loc, resp, calls, tasks>>

\* ffprobe answers the getMetadata of estimateTokens; the handler answers.
EstimateFinish(r) ==
    /\ pc[r] = "getMetadata"
    /\ args[r].tool = "estimate_analysis_cost"
    /\ pc' = [pc EXCEPT ![r] = "done"]
    /\ calls' = CountResult(r, "probe", files[args[r].videoPath].kind = "video")
    /\ IF files[args[r].videoPath].kind = "video"
       THEN LET frameCount == frameCountOf(args[r].frameCount)
                estimate == estimateTokens(files[args[r].videoPath].meta, frameCount)
            IN  resp' = [resp EXCEPT ![r] =
                    [success |-> TRUE,
                     estimate |-> [metadataTokens |-> estimate.metadata,
                                   tokensPerFrame |-> estimate.perFrame,
                                   totalForFrames |-> frameCount * estimate.perFrame,
                                   totalEstimated |-> estimate.total,
                                   warning |-> estimate.warning]]]
       ELSE resp' = [resp EXCEPT ![r] = Caught("metadata")]
    /\ UNCHANGED <<mediaVars, faults, fsVars, tempVars, frameCache, args, loc, tasks>>

\* ------------------------------------------------------------ extract_audio
StartAudio(r, videoPath) ==
    /\ pc[r] = "idle"
    /\ pc' = [pc EXCEPT ![r] = "checkFile"]
    /\ args' = [args EXCEPT ![r] = [tool |-> "extract_audio", videoPath |-> videoPath]]
    /\ UNCHANGED <<mediaVars, faults, fsVars, tempVars, frameCache, loc, resp, calls, tasks>>

NoAudioTrack == [success |-> FALSE, error |-> "Video does not have an audio track",
                 isError |-> FALSE]

\* if (!metadata.hasAudio) return ...: whether the handler goes on to extractAudio.
\* (audioRegardless: faulty variant that leaves the refusal to the extractor.)
audioRegardless(metadata) == TRUE
audioWanted(metadata) == metadata.hasAudio

\* ffprobe answers the getMetadata of extract_audio.  With an audio track the
\* handler calls extractAudio, which stops at await this.ensureTempDir().
AudioGetMetadata(r) ==
    /\ pc[r] = "getMetadata"
    /\ args[r].tool = "extract_audio"
    /\ IF files[args[r].videoPath].kind # "video"
       THEN /\ resp' = [resp EXCEPT ![r] = Caught("metadata")]
            /\ pc' = [pc EXCEPT ![r] = "done"]
            /\ calls' = CountResult(r, "probe", FALSE)
            /\ UNCHANGED loc
       ELSE IF ~audioWanted(files[args[r].videoPath].meta)
       THEN /\ resp' = [resp EXCEPT ![r] = NoAudioTrack]
            /\ pc' = [pc EXCEPT ![r] = "done"]
            /\ calls' = Count(r, "probe")
            /\ UNCHANGED loc
       ELSE /\ loc' = [loc EXCEPT ![r] =
                         [metadata |-> files[args[r].videoPath].meta, audioFile |-> -1]]
            /\ pc' = [pc EXCEPT ![r] = "audioMkdir"]
            /\ calls' = [calls EXCEPT ![r].probe = @ + 1, ![r].mkdir = @ + 1]
            /\ UNCHANGED resp
    /\ UNCHANGED <<mediaVars, faults, fsVars, tempVars, frameCache, args, tasks>>

\* ------------------------------------------------------------- extractAudio
\* fs.mkdir of ensureTempDir settles; audioPath is named after Date.now() and
\* ffmpeg is started on it.
AudioMkdirDone(r) ==
    /\ pc[r] = "audioMkdir"
    /\ tempDir' = TRUE
    /\ loc' = [loc EXCEPT ![r].audioFile = now]
    /\ pc' = [pc EXCEPT ![r] = "audioFfmpeg"]
    /\ calls' = Count(r, "audio")
    /\ UNCHANGED <<mediaVars, faults, fsVars, now, tempFiles, frameCache, args, resp, tasks>>

\* ffmpeg(videoPath).noVideo() has an audio stream to write.
hasAudioStream(fs, videoPath) == fs[videoPath].kind = "video" /\ fs[videoPath].meta.hasAudio

\* ffmpeg ends: the audio file is written and extractAudio resolves with its
\* path.  extract_audio answers; analyzeVideo keeps the path and returns to
\* the handler, which calls getMetadataSummary.
AudioFfmpegEnd(r) ==
    /\ pc[r] = "audioFfmpeg"
    /\ hasAudioStream(files, args[r].videoPath)
    /\ audioFiles' = [audioFiles EXCEPT ![loc[r].audioFile] = <<args[r].videoPath>>]
    /\ IF args[r].tool = "extract_audio"
       THEN /\ resp' = [resp EXCEPT ![r] =
                          [success |-> TRUE, audioPath |-> <<loc[r].audioFile>>]]
            /\ pc' = [pc EXCEPT ![r] = "done"]
            /\ UNCHANGED loc
       ELSE /\ loc' = [loc EXCEPT ![r].audioPath = <<loc[r].audioFile>>]
            /\ pc' = [pc EXCEPT ![r] = "getMetadataSummary"]
            /\ UNCHANGED resp
    /\ UNCHANGED <<frameDirs, faults, fsVars, tempVars, frameCache, args, calls, tasks>>

\* ffmpeg reports an error and extractAudio rejects.  extract_audio lets the
\* handler's catch answer; analyzeVideo catches it, logs it and goes on with
\* audioPath undefined.
\* (audioErrorEscapes: faulty variant of analyzeVideo without the try/catch.)
audioErrorEscapes(tool) == FALSE
audioErrorCaught(tool) == tool = "analyze_video_full"

AudioFfmpegError(r) ==
    /\ pc[r] = "audioFfmpeg"
    /\ LET refused == ~hasAudioStream(files, args[r].videoPath)
       IN  /\ refused \/ faults < MaxFaults
           /\ faults' = IF refused THEN faults ELSE faults + 1
    /\ calls' = Failed(r, "audio")
    /\ IF audioErrorCaught(args[r].tool)
       THEN /\ pc' = [pc EXCEPT ![r] = "getMetadataSummary"]
            /\ UNCHANGED resp
       ELSE /\ resp' = [resp EXCEPT ![r] = Caught("audio")]
            /\ pc' = [pc EXCEPT ![r] = "done"]
    /\ UNCHANGED <<mediaVars, fsVars, tempVars, frameCache, args, loc, tasks>>

\* ------------------------------------------------------- analyze_video_full
\* const { maxFrames = 8 } = ...: the argument is <<>> when the caller gave none.
maxFramesOf(arg) == IF arg = <<>> THEN DEFAULT_MAX_FRAMES ELSE arg[1]

\* Math.min(maxFrames, 15)
\* (uncappedMaxFrames: faulty variant that passes maxFrames on as it is.)
uncappedMaxFrames(maxFrames) == maxFrames
cappedMaxFrames(maxFrames) == Min(maxFrames, ANALYZE_FRAME_CAP)

\* The frameCount the handler gives estimateTokens: maxFrames as requested.
estimatedFrames(maxFrames) == maxFrames

StartAnalyze(r, videoPath, maxFrames, extractAudio, frameInterval) ==
    /\ pc[r] = "idle"
    /\ pc' = [pc EXCEPT ![r] = "checkFile"]
    /\ args' = [args EXCEPT ![r] = [tool |-> "analyze_video_full", videoPath |-> videoPath,
                                    maxFrames |-> maxFrames, extractAudio |-> extractAudio,
                                    frameInterval |-> frameInterval]]
    /\ UNCHANGED <<mediaVars, faults, fsVars, tempVars, frameCache, loc, resp, calls, tasks>>

\* The locals of the handler, of analyzeVideo and of extractFrames that live
\* across an await.
AnalyzeLocals(estimate) ==
    [estimate |-> estimate, metadata |-> NoMeta, frameDir |-> -1, frameInterval |-> 0,
     totalFrames |-> 0, frames |-> <<>>, failed |-> FALSE, audioFile |-> -1,
     audioPath |-> <<>>]

\* ffprobe answers the getMetadata of estimateTokens; analyzeVideo starts its
\* own getMetadata.
AnalyzeEstimate(r) ==
    /\ pc[r] = "estimateTokens"
    /\ calls' = CountResult(r, "probe", files[args[r].videoPath].kind = "video")
    /\ IF files[args[r].videoPath].kind = "video"
       THEN /\ loc' = [loc EXCEPT ![r] =
                         AnalyzeLocals(estimateTokens(files[args[r].videoPath].meta,
                                           estimatedFrames(maxFramesOf(args[r].maxFrames))))]
            /\ pc' = [pc EXCEPT ![r] = "analyzeGetMetadata"]
            /\ UNCHANGED resp
       ELSE /\ resp' = [resp EXCEPT ![r] = Caught("metadata")]
            /\ pc' = [pc EXCEPT ![r] = "done"]
            /\ UNCHANGED loc
    /\ UNCHANGED <<mediaVars, faults, fsVars, tempVars, frameCache, args, tasks>>

\* ffprobe answers the getMetadata of analyzeVideo; extractFrames is called
\* and stops at await this.ensureTempDir().
AnalyzeGetMetadata(r) ==
    /\ pc[r] = "analyzeGetMetadata"
    /\ IF files[args[r].videoPath].kind = "video"
       THEN /\ loc' = [loc EXCEPT ![r].metadata = files[args[r].videoPath].meta]
            /\ pc' = [pc EXCEPT ![r] = "framesEnsureTempDir"]
            /\ calls' = [calls EXCEPT ![r].probe = @ + 1, ![r].mkdir = @ + 1]
            /\ UNCHANGED resp
       ELSE /\ resp' = [resp EXCEPT ![r] = Caught("metadata")]
            /\ pc' = [pc EXCEPT ![r] = "done"]
            /\ calls' = CountResult(r, "probe", FALSE)
            /\ UNCHANGED loc
    /\ UNCHANGED <<mediaVars, faults, fsVars, tempVars, frameCache, args, tasks>>

\* ------------------------------------------------------------ extractFrames
\* fs.mkdir of ensureTempDir settles; frameDir is named after Date.now() and
\* its fs.mkdir is started.
FramesEnsureTempDir(r) ==
    /\ pc[r] = "framesEnsureTempDir"
    /\ tempDir' = TRUE
    /\ loc' = [loc EXCEPT ![r].frameDir = now]
    /\ pc' = [pc EXCEPT ![r] = "framesMkdir"]
    /\ calls' = Count(r, "mkdir")
    /\ UNCHANGED <<mediaVars, faults, fsVars, now, tempFiles, frameCache, args, resp, tasks>>

\* fs.mkdir(frameDir, { recursive: true }) settles; getMetadata is started.
FramesMkdir(r) ==
    /\ pc[r] = "framesMkdir"
    /\ frameDirs' = IF frameDirs[loc[r].frameDir] = NoDir
                    THEN [frameDirs EXCEPT ![loc[r].frameDir] = <<{}>>]
                    ELSE frameDirs
    /\ pc' = [pc EXCEPT ![r] = "framesGetMetadata"]
    /\ UNCHANGED <<audioFiles, faults, fsVars, tempVars, frameCache, args, loc, resp, calls,
                   tasks>>

\* interval || Math.max(1, Math.floor(metadata.duration / maxFrames)); the
\* interval argument is <<>> when the caller gave none.  0 stands for the
\* Infinity or NaN of maxFrames = 0, with which no frame is extracted.
extractFrameInterval(duration, maxFrames, interval) ==
    IF interval # <<>> /\ interval[1] # 0 THEN interval[1]
    ELSE IF maxFrames > 0 THEN Max(1, JsFloorDiv(duration, DurScale * maxFrames))
    ELSE IF maxFrames < 0 THEN 1
    ELSE 0

\* Math.min(maxFrames, Math.floor(metadata.duration / frameInterval))
extractTotalFrames(duration, maxFrames, frameInterval) ==
    IF frameInterval > 0 THEN Min(maxFrames, JsFloorDiv(duration, DurScale * frameInterval))
    ELSE IF frameInterval < 0 THEN Min(maxFrames, -JsCeil(duration, DurScale * (-frameInterval)))
    ELSE Min(maxFrames, 0)

\* Where extractFrames goes when the loop test i < totalFrames is made.
loopOrRm(i, totalFrames) == IF i < totalFrames THEN "frameFfmpeg" ELSE "framesRm"

\* ffprobe answers the getMetadata of extractFrames, which is outside its
\* try block: a rejection leaves frameDir where it is.  Otherwise the loop
\* starts ffmpeg on frame 0, or is over at once.
FramesGetMetadata(r) ==
    /\ pc[r] = "framesGetMetadata"
    /\ IF files[args[r].videoPath].kind = "video"
       THEN LET metadata == files[args[r].videoPath].meta
                maxFrames == cappedMaxFrames(maxFramesOf(args[r].maxFrames))
                frameInterval ==
                    extractFrameInterval(metadata.duration, maxFrames, args[r].frameInterval)
                totalFrames == extractTotalFrames(metadata.duration, maxFrames, frameInterval)
            IN  /\ loc' = [loc EXCEPT ![r].frameInterval = frameInterval,
                                      ![r].totalFrames = totalFrames]
                /\ pc' = [pc EXCEPT ![r] = loopOrRm(0, totalFrames)]
                /\ calls' = [calls EXCEPT ![r].probe = @ + 1,
                                          ![r].decode = IF 0 < totalFrames THEN @ + 1 ELSE @]
                /\ UNCHANGED resp
       ELSE /\ resp' = [resp EXCEPT ![r] = Caught("metadata")]
            /\ pc' = [pc EXCEPT ![r] = "done"]
            /\ calls' = CountResult(r, "probe", FALSE)
            /\ UNCHANGED loc
    /\ UNCHANGED <<mediaVars, faults, fsVars, tempVars, frameCache, args, tasks>>

\* The frame the loop is at: i is frames.length.
frameIndex(l) == Len(l.frames)
frameTimestamp(l) == Len(l.frames) * l.frameInterval

\* ffmpeg ends: the frame it decoded, if any, is in frameDir/frame-<i>.png.
FrameFfmpegEnd(r) ==
    /\ pc[r] = "frameFfmpeg"
    /\ files[args[r].videoPath].kind = "video"
    /\ frameDirs[loc[r].frameDir] # NoDir
    /\ LET decoded == decodeFrameAt(files, args[r].videoPath, frameTimestamp(loc[r]))
       IN  frameDirs' =
               IF decoded = NoFrame THEN frameDirs
               ELSE [frameDirs EXCEPT ![loc[r].frameDir] =
                        <<{f \in @[1] : f[1] # frameIndex(loc[r])}
                          \cup {<<frameIndex(loc[r]), decoded>>}>>]
    /\ pc' = [pc EXCEPT ![r] = "frameReadFile"]
    /\ UNCHANGED <<audioFiles, faults, fsVars, tempVars, frameCache, args, loc, resp, calls,
                   tasks>>

\* ffmpeg reports an error: extractFrames goes to its finally block.
FrameFfmpegError(r) ==
    /\ pc[r] = "frameFfmpeg"
    /\ LET refused == \/ decoderRefuses(files, args[r].videoPath, frameTimestamp(loc[r]))
                      \/ frameDirs[loc[r].frameDir] = NoDir
       IN  /\ refused \/ faults < MaxFaults
           /\ faults' = IF refused THEN faults ELSE faults + 1
    /\ loc' = [loc EXCEPT ![r].failed = TRUE]
    /\ pc' = [pc EXCEPT ![r] = "framesRm"]
    /\ calls' = Failed(r, "decode")
    /\ UNCHANGED <<mediaVars, fsVars, tempVars, frameCache, args, resp, tasks>>

\* The files frame-<i>.png of a frame directory.
frameFilesAt(dirs, d, i) == IF dirs[d] = NoDir THEN {} ELSE {f \in dirs[d][1] : f[1] = i}

\* fs.readFile(framePath) settles and, if it gave the image, sharp runs on the
\* buffer (ok tells whether none of its steps threw); the frame is pushed and
\* the loop goes on.
FrameReadFile(r, ok) ==
    /\ pc[r] = "frameReadFile"
    /\ LET found == frameFilesAt(frameDirs, loc[r].frameDir, frameIndex(loc[r]))
       IN  /\ ok \/ (faults < MaxFaults /\ found # {})
           /\ faults' = IF ok THEN faults ELSE faults + 1
           /\ IF found # {} /\ ok
              THEN LET frame == [timestamp |-> frameTimestamp(loc[r]),
                                 image |-> (CHOOSE f \in found : TRUE)[2]]
                       i == frameIndex(loc[r]) + 1
                   IN  /\ loc' = [loc EXCEPT ![r].frames = Append(@, frame)]
                       /\ pc' = [pc EXCEPT ![r] = loopOrRm(i, loc[r].totalFrames)]
                       /\ calls' = [calls EXCEPT
                                      ![r].codec = @ + 1,
                                      ![r].decode = IF i < loc[r].totalFrames THEN @ + 1 ELSE @]
              ELSE /\ loc' = [loc EXCEPT ![r].failed = TRUE]
                   /\ pc' = [pc EXCEPT ![r] = "framesRm"]
                   /\ calls' = IF found # {} THEN CountResult(r, "codec", FALSE) ELSE calls
    /\ UNCHANGED <<mediaVars, fsVars, tempVars, frameCache, args, resp, tasks>>

\* finally: fs.rm(frameDir, { recursive, force }) settles.  After a failure
\* the handler's catch answers; otherwise analyzeVideo has its frames and
\* calls extractAudio when asked to and the profile has audio.
FramesRm(r) ==
    /\ pc[r] = "framesRm"
    /\ frameDirs' = [frameDirs EXCEPT ![loc[r].frameDir] = NoDir]
    /\ IF loc[r].failed
       THEN /\ resp' = [resp EXCEPT ![r] = Caught("extract")]
            /\ pc' = [pc EXCEPT ![r] = "done"]
            /\ UNCHANGED calls
       ELSE IF args[r].extractAudio /\ loc[r].metadata.hasAudio
       THEN /\ pc' = [pc EXCEPT ![r] = "audioMkdir"]
            /\ calls' = Count(r, "mkdir")
            /\ UNCHANGED resp
       ELSE /\ pc' = [pc EXCEPT ![r] = "getMetadataSummary"]
            /\ UNCHANGED <<resp, calls>>
    /\ UNCHANGED <<audioFiles, faults, fsVars, tempVars, frameCache, args, loc, tasks>>

\* The text part of a successful analyze_video_full response and its images.
analyzeResponse(videoPath, summary, l) ==
    [success |-> TRUE,
     contextWarning |-> l.estimate.warning,
     video |-> [filename |-> videoPath,
                duration |-> summary.durationFormatted,
                resolution |-> summary.resolution],
     metadata |-> [durationSeconds |-> l.metadata.duration, hasAudio |-> l.metadata.hasAudio],
     framesExtracted |-> Len(l.frames),
     frames |-> [k \in 1..Len(l.frames) |->
                   [index |-> k,
                    timestamp |-> l.frames[k].timestamp,
                    timestampFormatted |-> formatTimestamp(l.frames[k].timestamp)]],
     audioExtracted |-> l.audioPath # <<>>,
     audioPath |-> l.audioPath,
     images |-> [k \in 1..Len(l.frames) |-> l.frames[k].image]]

\* ffprobe answers the getMetadata of the handler's getMetadataSummary; the
\* handler answers.
AnalyzeFinish(r) ==
    /\ pc[r] = "getMetadataSummary"
    /\ args[r].tool = "analyze_video_full"
    /\ pc' = [pc EXCEPT ![r] = "done"]
    /\ calls' = CountResult(r, "probe", files[args[r].videoPath].kind = "video")
    /\ IF files[args[r].videoPath].kind = "video"
       THEN resp' = [resp EXCEPT ![r] =
                       analyzeResponse(args[r].videoPath,
                                       metadataSummary(files[args[r].videoPath].meta), loc[r])]
       ELSE resp' = [resp EXCEPT ![r] = Caught("metadata")]
    /\ UNCHANGED <<mediaVars, faults, fsVars, tempVars, frameCache, args, loc, tasks>>

\* ------------------------------------------------------------- unknown tool
\* default: the request names none of the tools.
UnknownTool(r) ==
    /\ pc[r] = "idle"
    /\ pc' = [pc EXCEPT ![r] = "done"]
    /\ args' = [args EXCEPT ![r] = [tool |-> "unknown"]]
    /\ resp' = [resp EXCEPT ![r] = [success |-> FALSE, error |-> "Unknown tool",
                                    isError |-> FALSE]]
    /\ UNCHANGED <<mediaVars, faults, fsVars, tempVars, frameCache, loc, calls, tasks>>

\* -------------------------------------------------------------- environment
\* Date.now() advances.
Tick ==
    /\ now < MaxNow
    /\ now' = now + 1
    /\ UNCHANGED <<mediaVars, faults, fsVars, tempDir, tempFiles, frameCache, pc, args, loc, resp, calls, tasks>>

\* Someone replaces, removes or corrupts a video file.
ChangeFile(p, f) ==
    /\ fsChanges < MaxFsChanges
    /\ files[p] # f
    /\ files' = [files EXCEPT ![p] = f]
    /\ fsChanges' = fsChanges + 1
    /\ UNCHANGED <<mediaVars, faults, tempVars, frameCache, pc, args, loc, resp, calls, tasks>>

\* ----------------------------------------------------------- specifications
TaskSteps(r) ==
    \E k \in 1..BATCH_LIMIT :
        \/ TaskMkdirDone(r, k)
        \/ TaskFfmpegEnd(r, k)
        \/ TaskFfmpegError(r, k)
        \/ \E ok \in BOOLEAN : TaskReadFile(r, k, ok)
        \/ TaskRm(r, k)

OverviewSteps(r) ==
    \/ OverviewCheckFile(r)
    \/ OverviewGetMetadata(r)
    \/ OverviewFinish(r)

\* Two requests in flight: get_video_overview and get_frame calls, while the
\* file a.mp4 may be replaced, removed or corrupted under them.
FrameCounts == {<<>>, <<2>>, <<3>>}
FrameTimestamps == {0, 7}
FileStates == {Absent, NotVideo, Video(MetaA), Video(MetaB)}

Next ==
    \/ \E r \in Slots, p \in AllPaths, c \in FrameCounts : StartOverview(r, p, c)
    \/ \E r \in Slots : OverviewSteps(r)
    \/ \E r \in Slots, p \in AllPaths, t \in FrameTimestamps : StartGetFrame(r, p, t)
    \/ \E r \in Slots : GetFrameCheckFile(r)
    \/ \E r \in Slots : TaskSteps(r)
    \/ Tick
    \/ \E f \in FileStates : ChangeFile("a.mp4", f)

Spec == Init /\ [][Next]_vars

\* One get_video_overview call over a wide range of profiles and frame counts.
PlanDurations ==
    (0..MaxDurU) \cup {100 * DurScale, LONG_VIDEO_SECONDS * DurScale,
                       LONG_VIDEO_SECONDS * DurScale + 1}
PlanResolutions == {<<1920, 1080>>, <<3840, 2160>>, <<504, 611>>, <<640, 360>>}
PlanMetas ==
    {[duration |-> d, width |-> wh[1], height |-> wh[2], hasAudio |-> a] :
        d \in PlanDurations, wh \in PlanResolutions, a \in BOOLEAN}
PlanCounts == {<<>>} \cup {<<n>> : n \in (-1)..MaxCount}

PlanInit ==
    \E m \in PlanMetas :
        InitWith([p \in AllPaths |-> IF p = "a.mp4" THEN Video(m) ELSE Absent])

PlanNext ==
    \/ \E c \in PlanCounts : StartOverview(1, "a.mp4", c)
    \/ OverviewSteps(1)

PlanSpec == PlanInit /\ [][PlanNext]_vars

\* One get_frames_batch call whose extractSingleFrame calls all pass
\* Date.now() within the same millisecond.  The long lists repeat one
\* timestamp in their first BATCH_LIMIT entries; the short ones do not.
TimestampLists ==
    {[i \in 1..n |-> IF i <= BATCH_LIMIT THEN 0 ELSE i] : n \in 0..MaxTsLen}
    \cup {[i \in 1..n |-> start + step * (i - 1)] : n \in 1..3, start \in {0, 3}, step \in {-1, 1}}

BatchNext ==
    \/ \E p \in {"a.mp4", "missing.mp4"}, tss \in TimestampLists : StartBatch(1, p, tss)
    \/ BatchCheckFile(1)
    \/ TaskSteps(1)

BatchSpec == Init /\ [][BatchNext]_vars

\* One call of any tool, while the clock advances and the file a.mp4 may be
\* replaced, removed or corrupted under it.
ToolTimestamps == {-1, 0, 7, 10}
ToolLists == {<<>>, <<0>>, <<7, 0>>, <<0, 10>>}
ToolMaxFrames == {<<>>, <<2>>}
ToolIntervals == {<<>>, <<3>>}

MetadataSteps(r) ==
    \/ MetadataGetMetadata(r)
    \/ MetadataFinish(r)

AudioSteps(r) ==
    \/ AudioMkdirDone(r)
    \/ AudioFfmpegEnd(r)
    \/ AudioFfmpegError(r)

AnalyzeSteps(r) ==
    \/ AnalyzeEstimate(r)
    \/ AnalyzeGetMetadata(r)
    \/ FramesEnsureTempDir(r)
    \/ FramesMkdir(r)
    \/ FramesGetMetadata(r)
    \/ FrameFfmpegEnd(r)
    \/ FrameFfmpegError(r)
    \/ \E ok \in BOOLEAN : FrameReadFile(r, ok)
    \/ FramesRm(r)
    \/ AnalyzeFinish(r)

ToolNext ==
    \/ \E p \in AllPaths, c \in FrameCounts : StartOverview(1, p, c)
    \/ OverviewSteps(1)
    \/ \E p \in AllPaths : StartMetadata(1, p)
    \/ ProbeCheckFile(1)
    \/ MetadataSteps(1)
    \/ \E p \in AllPaths, c \in FrameCounts : StartEstimate(1, p, c)
    \/ EstimateFinish(1)
    \/ \E p \in AllPaths, t \in ToolTimestamps : StartGetFrame(1, p, t)
    \/ GetFrameCheckFile(1)
    \/ \E p \in AllPaths, tss \in ToolLists : StartBatch(1, p, tss)
    \/ BatchCheckFile(1)
    \/ TaskSteps(1)
    \/ \E p \in AllPaths : StartAudio(1, p)
    \/ AudioGetMetadata(1)
    \/ AudioSteps(1)
    \/ \E p \in AllPaths, m \in ToolMaxFrames, a \in BOOLEAN, i \in ToolIntervals :
          StartAnalyze(1, p, m, a, i)
    \/ AnalyzeSteps(1)
    \/ UnknownTool(1)
    \/ Tick
    \/ \E f \in FileStates : ChangeFile("a.mp4", f)

ToolSpec == Init /\ [][ToolNext]_vars

\* One analyze_video_full call, without audio, over a range of profiles,
\* frame counts and intervals.
AnalyzeDurations == {0, 1, 4 * DurScale + 1, 10 * DurScale, MaxDurU}
AnalyzeResolutions == {<<1280, 720>>, <<640, 360>>, <<504, 611>>, <<3840, 100>>}
AnalyzeMetas ==
    {[duration |-> d, width |-> wh[1], height |-> wh[2], hasAudio |-> FALSE] :
        d \in AnalyzeDurations, wh \in AnalyzeResolutions}
AnalyzeMaxFrames ==
    {<<>>} \cup {<<n>> : n \in {-1, 0, 1, 2, 5, 7, ANALYZE_FRAME_CAP - 1, ANALYZE_FRAME_CAP,
                                ANALYZE_FRAME_CAP + 1, MaxRequest}}
AnalyzeIntervals == {<<>>, <<0>>, <<1>>, <<3>>, <<-2>>}

AnalyzeInit ==
    \E m \in AnalyzeMetas :
        InitWith([p \in AllPaths |-> IF p = "a.mp4" THEN Video(m) ELSE Absent])

AnalyzeNext ==
    \/ \E m \in AnalyzeMaxFrames, i \in AnalyzeIntervals : StartAnalyze(1, "a.mp4", m, FALSE, i)
    \/ ProbeCheckFile(1)
    \/ AnalyzeSteps(1)

AnalyzeSpec == AnalyzeInit /\ [][AnalyzeNext]_vars

\* Cost questions about two files: slot 1 asks for an overview or an estimate
\* of a.mp4 while slot 2 asks for an estimate of a.mp4 or b.mp4.
CostDurations == {4 * DurScale + 1, 10 * DurScale}
CostResolutions ==
    {<<3840, 100>>, <<1000, 300>>, <<504, 611>>, <<1010, 760>>, <<1280, 720>>, <<1920, 1080>>}
CostMetas ==
    {[duration |-> d, width |-> wh[1], height |-> wh[2], hasAudio |-> FALSE] :
        d \in CostDurations, wh \in CostResolutions}
CostCounts == {<<>>, <<0>>, <<2>>, <<5>>, <<6>>}

CostInit ==
    \E ma \in CostMetas, mb \in CostMetas :
        InitWith([p \in AllPaths |->
                    IF p = "a.mp4" THEN Video(ma)
                    ELSE IF p = "b.mp4" THEN Video(mb) ELSE Absent])

CostNext ==
    \/ \E c \in CostCounts : StartOverview(1, "a.mp4", c)
    \/ OverviewSteps(1)
    \/ \E c \in CostCounts : StartEstimate(1, "a.mp4", c)
    \/ \E p \in VideoPaths, c \in CostCounts : StartEstimate(2, p, c)
    \/ \E r \in Slots : ProbeCheckFile(r)
    \/ \E r \in Slots : EstimateFinish(r)

CostSpec == CostInit /\ [][CostNext]_vars

\* One get_video_metadata call over profiles on both sides of every threshold
\* of the analysis hints.
SummaryDurations ==
    {0, 1, 10 * DurScale, 25 * DurScale, SHORT_VIDEO_SECONDS * DurScale - 1,
     SHORT_VIDEO_SECONDS * DurScale, 45 * DurScale, 100 * DurScale,
     MEDIUM_VIDEO_SECONDS * DurScale - 1, MEDIUM_VIDEO_SECONDS * DurScale,
     MEDIUM_VIDEO_SECONDS * DurScale + 1, 1210 * DurScale}
SummaryResolutions == {<<1280, 720>>, <<1920, 1080>>, <<1921, 1080>>, <<3840, 2160>>}
SummaryMetas ==
    {[duration |-> d, width |-> wh[1], height |-> wh[2], hasAudio |-> a] :
        d \in SummaryDurations, wh \in SummaryResolutions, a \in BOOLEAN}

SummaryInit ==
    \E m \in SummaryMetas :
        InitWith([p \in AllPaths |-> IF p = "a.mp4" THEN Video(m) ELSE Absent])

SummaryNext ==
    \/ \E p \in {"a.mp4", "missing.mp4"} : StartMetadata(1, p)
    \/ ProbeCheckFile(1)
    \/ MetadataSteps(1)

SummarySpec == SummaryInit /\ [][SummaryNext]_vars

\* The cache under every tool: slot 1 asks for overviews while slot 2 runs one
\* call of any of the seven tools, and a.mp4 may stop being a video.
CacheCounts == {<<>>, <<2>>}

CacheNext ==
    \/ \E p \in AllPaths, c \in CacheCounts : StartOverview(1, p, c)
    \/ \E p \in VideoPaths : StartOverview(2, p, <<3>>)
    \/ \E r \in Slots : OverviewSteps(r)
    \/ StartMetadata(2, "a.mp4")
    \/ ProbeCheckFile(2)
    \/ MetadataSteps(2)
    \/ StartEstimate(2, "a.mp4", <<>>)
    \/ EstimateFinish(2)
    \/ StartGetFrame(2, "a.mp4", 0)
    \/ GetFrameCheckFile(2)
    \/ StartBatch(2, "a.mp4", <<7, 0>>)
    \/ BatchCheckFile(2)
    \/ TaskSteps(2)
    \/ StartAudio(2, "a.mp4")
    \/ AudioGetMetadata(2)
    \/ AudioSteps(2)
    \/ \E a \in BOOLEAN : StartAnalyze(2, "a.mp4", <<2>>, a, <<>>)
    \/ AnalyzeSteps(2)
    \/ ChangeFile("a.mp4", NotVideo)

CacheSpec == Init /\ [][CacheNext]_vars

\* ------------------------------------------------------------------- claims
IsOverview(r) == args[r].tool = "get_video_overview"
OverviewDone(r) == IsOverview(r) /\ pc[r] = "done" /\ resp[r].success
FramesOf(r) == resp[r].overview.availableFrames
RequestedCount(r) == frameCountOf(args[r].frameCount)
\* The step in which getVideoOverview of slot r returns.
OverviewReturns(r) ==
    IsOverview(r) /\ pc[r] = "getMetadataSummary" /\ pc'[r] = "done" /\ resp'[r].success

\* C1: a get_video_overview call, whatever its path and frameCount, never
\* invokes the frame decoder, the image codec or the audio extractor, starts
\* no extraction and creates neither the temp directory nor a temp file; it
\* calls only the existence check (once) and the prober.
C1_OverviewNeverExtracts ==
    /\ \A r \in Slots :
          IsOverview(r) =>
              /\ calls[r].decode = 0
              /\ calls[r].audio = 0
              /\ calls[r].codec = 0
              /\ calls[r].mkdir = 0
              /\ tasks[r] = <<>>
              /\ calls[r].access <= 1
              /\ calls[r].probe <= 2
    /\ (\A r \in Slots : args[r].tool \in {"none", "get_video_overview"}) =>
          /\ tempDir = FALSE
          /\ \A t \in DOMAIN tempFiles : tempFiles[t] = NoFrame

C1_Witness ==
    \E r \in Slots :
        /\ OverviewDone(r)
        /\ Len(FramesOf(r)) >= 3
        /\ calls[r].probe = 2
        /\ \A q \in Slots : args[q].tool = "get_video_overview"

\* C2: for a timestamps list of length n, get_frames_batch starts at most
\* min(n, 5) extractions, one for each of the first 5 entries in order, and a
\* successful response reports totalTimestampsRequested = n, framesExtracted
\* = min(n, 5) and limited = (n > 5).
C2_BatchCap ==
    \A r \in Slots :
        args[r].tool = "get_frames_batch" =>
            LET n == Len(args[r].timestamps)
                m == IF n < 5 THEN n ELSE 5
            IN  /\ Len(tasks[r]) <= m
                /\ \A k \in 1..Len(tasks[r]) : tasks[r][k].timestamp = args[r].timestamps[k]
                /\ calls[r].mkdir <= m
                /\ calls[r].decode <= m
                /\ pc[r] = "extract" => Len(tasks[r]) = m
                /\ resp[r].success =>
                      /\ Len(tasks[r]) = m
                      /\ resp[r].totalTimestampsRequested = n
                      /\ resp[r].framesExtracted = m
                      /\ resp[r].limited = (n > 5)

C2_Witness ==
    \E r \in Slots :
        /\ args[r].tool = "get_frames_batch"
        /\ resp[r].success
        /\ Len(args[r].timestamps) > 5
        /\ resp[r].limited
        /\ calls[r].decode = 5

\* C3: the hint list of an overview is ordered by non-increasing priority,
\* holds exactly the hints that were pushed, and hints of equal priority
\* stand in the order in which they were pushed.
C3_HintsSortedStable ==
    \A r \in Slots :
        OverviewDone(r) =>
            LET h == resp[r].contextHints
                pushed == pushedHints(loc[r], FramesOf(r))
                Pos(x) == CHOOSE i \in 1..Len(pushed) : pushed[i] = x
            IN  /\ \A i \in 1..(Len(h) - 1) : h[i].priority >= h[i + 1].priority
                /\ Len(h) = Len(pushed)
                /\ \A i \in 1..Len(h) : \E j \in 1..Len(pushed) : pushed[j] = h[i]
                /\ \A i, j \in 1..Len(h) :
                      (i < j /\ h[i].priority = h[j].priority) => Pos(h[i]) < Pos(h[j])

C3_Witness ==
    \E r \in Slots :
        /\ OverviewDone(r)
        /\ Len(resp[r].contextHints) = 4
        /\ resp[r].contextHints[1].priority = 10
        /\ resp[r].contextHints[2].priority = 8

\* C4: when the estimated tokens of the planned references sum to more than
\* 50 000 the hint list starts with a warning hint of priority 10; when the
\* sum is at most 50 000 the list holds no warning hint.
SumTokens(frames) ==
    IF frames = <<>> THEN 0 ELSE Len(frames) * frames[1].estimatedTokens

\* C4: the warning hint is first when the sum exceeds 50 000 and absent otherwise.
C4_WarningAboveThreshold ==
    \A r \in Slots :
        OverviewDone(r) =>
            LET h == resp[r].contextHints
                total == SumTokens(FramesOf(r))
            IN  /\ \A k \in 1..Len(FramesOf(r)) :
                      FramesOf(r)[k].estimatedTokens = FramesOf(r)[1].estimatedTokens
                /\ total > 50000 =>
                      /\ h # <<>>
                      /\ h[1].type = "warning"
                      /\ h[1].priority = 10
                /\ total <= 50000 => \A i \in 1..Len(h) : h[i].type # "warning"

C4_Witness ==
    \E r \in Slots :
        /\ OverviewDone(r)
        /\ SumTokens(FramesOf(r)) = 60000
        /\ resp[r].contextHints[1].type = "warning"

\* C5: every hint list of a successful overview holds exactly one action
\* hint; it has priority 3 and a suggested tool and is the last element, so
\* the list is never empty, also when no frame reference was planned.
C5_OneActionHintLast ==
    \A r \in Slots :
        OverviewDone(r) =>
            LET h == resp[r].contextHints
            IN  /\ h # <<>>
                /\ Cardinality({i \in 1..Len(h) : h[i].type = "action"}) = 1
                /\ h[Len(h)].type = "action"
                /\ h[Len(h)].priority = 3
                /\ h[Len(h)].suggestedTool = "get_frame"

C5_Witness ==
    \E r \in Slots :
        /\ OverviewDone(r)
        /\ FramesOf(r) = <<>>
        /\ Len(resp[r].contextHints) = 1

\* C6: the k-th planned reference (k = 0, 1, ...) has index k and timestamp
\* k * max(1, floor(duration / requestedCount)) with 0 <= timestamp <
\* duration; there are at most requestedCount references, and none when the
\* duration is 0 or requestedCount <= 0.
C6_PlannedFramesInRange ==
    \A r \in Slots :
        OverviewDone(r) =>
            LET frames == FramesOf(r)
                d == loc[r].duration
                n == RequestedCount(r)
            IN  /\ \A k \in 1..Len(frames) :
                      LET floored == d \div (DurScale * n)
                          interval == IF floored > 1 THEN floored ELSE 1
                      IN  /\ frames[k].index = k - 1
                          /\ frames[k].index >= 0
                          /\ frames[k].timestamp = (k - 1) * interval
                          /\ frames[k].timestamp >= 0
                          /\ frames[k].timestamp * DurScale < d
                /\ n >= 0 => Len(frames) <= n
                /\ (d = 0 \/ n <= 0) => frames = <<>>

C6_Witness ==
    \E r \in Slots :
        /\ OverviewDone(r)
        /\ loc[r].duration % DurScale # 0
        /\ Len(FramesOf(r)) >= 3
        /\ Len(FramesOf(r)) < RequestedCount(r)

\* C7: exactly requestedCount references are planned when duration >=
\* requestedCount >= 1 (100 s and 10 give 0, 10, ..., 90; 15 s and 10 give
\* 0..9), and exactly ceil(duration) when 0 < duration < requestedCount.
C7_PlannedFrameCount ==
    \A r \in Slots :
        OverviewDone(r) =>
            LET frames == FramesOf(r)
                d == loc[r].duration
                n == RequestedCount(r)
            IN  /\ (n >= 1 /\ d >= n * DurScale) => Len(frames) = n
                /\ (0 < d /\ d < n * DurScale) =>
                      Len(frames) = (d + DurScale - 1) \div DurScale
                /\ (d = 100 * DurScale /\ n = 10) =>
                      [k \in 1..Len(frames) |-> frames[k].timestamp]
                          = [k \in 1..10 |-> 10 * (k - 1)]
                /\ (d = 15 * DurScale /\ n = 10) =>
                      [k \in 1..Len(frames) |-> frames[k].timestamp]
                          = [k \in 1..10 |-> k - 1]

C7_Witness ==
    \E r \in Slots :
        /\ OverviewDone(r)
        /\ loc[r].duration = 100 * DurScale
        /\ RequestedCount(r) = 10
        /\ FramesOf(r)[10].timestamp = 90

\* C8: two get_video_overview calls with the same path, the same frameCount
\* and the same probed profile return the same availableFrames, and when the
\* second of them returns while the cache entry is the plan of the first,
\* the entry it writes equals the entry it replaces.
SameRequest(r, q) ==
    /\ args[r].videoPath = args[q].videoPath
    /\ RequestedCount(r) = RequestedCount(q)
    /\ loc[r] = loc[q]

C8_SamePlanForSameRequest ==
    \A r, q \in Slots :
        (OverviewDone(r) /\ OverviewDone(q) /\ SameRequest(r, q)) => FramesOf(r) = FramesOf(q)

C8_SecondCallKeepsEntry ==
    \A r, q \in Slots :
        (/\ r # q
         /\ OverviewDone(q)
         /\ OverviewReturns(r)
         /\ SameRequest(r, q)
         /\ frameCache[args[q].videoPath] = <<FramesOf(q)>>)
        => /\ frameCache'[args[r].videoPath] = frameCache[args[r].videoPath]
           /\ resp'[r].overview.availableFrames = FramesOf(q)

\* C8: both parts, the equal plans and the unchanged cache entry.
C8_PlanningDeterministic ==
    [](C8_SamePlanForSameRequest) /\ [][C8_SecondCallKeepsEntry]_vars

C8_Witness ==
    /\ OverviewDone(1)
    /\ OverviewDone(2)
    /\ SameRequest(1, 2)
    /\ Len(FramesOf(1)) >= 2
    /\ frameCache[args[1].videoPath] = <<FramesOf(2)>>

\* C9: when getVideoOverview(path, frameCount) returns, the cache entry of
\* path is the availableFrames it returns, whatever the entry was before, and
\* the entry of every other path is what it was.
C9_ReturnSetsEntry ==
    \A r \in Slots :
        OverviewReturns(r) =>
            /\ frameCache'[args[r].videoPath] = <<resp'[r].overview.availableFrames>>
            /\ \A p \in AllPaths \ {args[r].videoPath} : frameCache'[p] = frameCache[p]

\* C9: every return of getVideoOverview sets the entry of its path and no other.
C9_CacheEntryReplaced == [][C9_ReturnSetsEntry]_vars

\* A longer plan was in the cache and the later call's shorter plan replaced it.
C9_Witness ==
    \E r, q \in Slots :
        /\ OverviewDone(r)
        /\ OverviewDone(q)
        /\ args[r].videoPath = args[q].videoPath
        /\ Len(FramesOf(q)) > Len(FramesOf(r))
        /\ frameCache[args[r].videoPath] = <<FramesOf(r)>>

\* C10: two get_video_overview calls for one path with different frameCount
\* that run concurrently: each returns the complete plan of its own profile
\* and frameCount, and the cache entry is the plan of the call that returned
\* last, never a mixture of the two.
\* frames is the whole plan of (duration d, count n): one reference for every
\* i < n whose timestamp i * interval lies before d.
CompletePlan(frames, d, n) ==
    LET interval == IF n > 0 /\ d \div (DurScale * n) > 1 THEN d \div (DurScale * n) ELSE 1
        wanted == {i \in 0..(n - 1) : i * interval * DurScale < d}
    IN  /\ Len(frames) = Cardinality(wanted)
        /\ \A k \in 1..Len(frames) :
              /\ frames[k].index = k - 1
              /\ frames[k].timestamp = (k - 1) * interval

C10_OwnCompletePlans ==
    \A r, q \in Slots :
        (r # q /\ OverviewDone(r) /\ OverviewDone(q) /\ args[r].videoPath = args[q].videoPath) =>
            /\ CompletePlan(FramesOf(r), loc[r].duration, RequestedCount(r))
            /\ CompletePlan(FramesOf(q), loc[q].duration, RequestedCount(q))
            /\ frameCache[args[r].videoPath] \in {<<FramesOf(r)>>, <<FramesOf(q)>>}

C10_LastWriterWins ==
    \A r, q \in Slots :
        (/\ r # q
         /\ OverviewReturns(r)
         /\ IsOverview(q)
         /\ args[r].videoPath = args[q].videoPath
         /\ pc[q] = "done")
        => frameCache'[args[r].videoPath] = <<resp'[r].overview.availableFrames>>

\* C10: own complete plans and last writer wins, in every interleaving.
C10_ConcurrentOverviews ==
    [](C10_OwnCompletePlans) /\ [][C10_LastWriterWins]_vars

\* Both calls are between their two probes of the same path, with different
\* frameCount: whichever returns second overwrites the other's plan.
C10_Witness ==
    /\ IsOverview(1)
    /\ IsOverview(2)
    /\ pc[1] = "getMetadataSummary"
    /\ pc[2] = "getMetadataSummary"
    /\ args[1].videoPath = args[2].videoPath
    /\ RequestedCount(1) # RequestedCount(2)
    /\ frameCache[args[1].videoPath] = <<>>

IsTool(r, tool) == args[r].tool = tool
Done(r) == pc[r] = "done"
NoTempFiles == \A t \in DOMAIN tempFiles : tempFiles[t] = NoFrame
\* The call of slot r names a video that nobody has touched since Init.
OnVideo(r) ==
    /\ args[r].videoPath \in VideoPaths
    /\ files[args[r].videoPath].kind = "video"
    /\ fsChanges = 0
OutOfRange(timestamp, duration) == timestamp < 0 \/ timestamp * DurScale >= duration

\* C11: get_frame fails, and returns no frame, whenever the timestamp is
\* negative or not before the duration of the video, and whenever the decoder
\* reports an error.
C11_OutOfRangeFails ==
    \A r \in Slots :
        (IsTool(r, "get_frame") /\ Done(r) /\ OnVideo(r)) =>
            /\ OutOfRange(args[r].timestamp, files[args[r].videoPath].meta.duration)
                  => ~resp[r].success
            /\ "decode" \in calls[r].failed => ~resp[r].success

\* C12: when an extractSingleFrame call that runs on its own has returned or
\* thrown, whichever of its steps failed, the temporary frame file it named
\* does not exist; nor does any other temp file once the handler has answered.
C12_TempFileRemoved ==
    \A r \in Slots :
        IsTool(r, "get_frame") =>
            /\ \A k \in 1..Len(tasks[r]) :
                  tasks[r][k].pc \in {"resolved", "rejected"}
                      => tempFiles[tasks[r][k].framePath] = NoFrame
            /\ Done(r) => NoTempFiles

\* sharp failed on a frame that ffmpeg had written and the call read.
C12_Witness ==
    \E r \in Slots :
        /\ IsTool(r, "get_frame")
        /\ Done(r)
        /\ calls[r].codec = 1
        /\ "codec" \in calls[r].failed
        /\ tasks[r][1].pc = "rejected"
        /\ NoTempFiles

\* C13: once get_frames_batch has answered, with success or with the failure
\* of one extraction while others were running, no temp frame file of the
\* call exists and none is written afterwards.
C13_NoFileAtResponse ==
    \A r \in Slots : (IsTool(r, "get_frames_batch") /\ Done(r)) => NoTempFiles

C13_NoWriteAfterResponse ==
    \A r \in Slots :
        (IsTool(r, "get_frames_batch") /\ Done(r)) =>
            \A t \in DOMAIN tempFiles : tempFiles'[t] # NoFrame => tempFiles[t] # NoFrame

\* C13: no temp frame file when get_frames_batch has answered, and none written later.
C13_BatchLeavesNoTempFile ==
    [](C13_NoFileAtResponse) /\ [][C13_NoWriteAfterResponse]_vars

\* C14: in whatever order the extractions of a get_frames_batch call settle,
\* a successful response has, at position i, the frame whose timestamp is the
\* i-th of the first 5 timestamps the caller listed, duplicates included.
C14_BatchOrderPreserved ==
    \A r \in Slots :
        (IsTool(r, "get_frames_batch") /\ Done(r) /\ resp[r].success) =>
            LET n == IF Len(args[r].timestamps) < 5 THEN Len(args[r].timestamps) ELSE 5
            IN  /\ Len(resp[r].frames) = n
                /\ \A i \in 1..n :
                      /\ resp[r].frames[i].timestamp = args[r].timestamps[i]
                      /\ resp[r].frames[i].timestampFormatted
                            = <<args[r].timestamps[i] \div 60, args[r].timestamps[i] % 60>>
                               \/ args[r].timestamps[i] < 0

\* A later extraction settled before an earlier one, on distinct timestamps.
C14_Witness ==
    \E r \in Slots :
        /\ IsTool(r, "get_frames_batch")
        /\ Done(r)
        /\ resp[r].success
        /\ Len(resp[r].frames) = 3
        /\ tasks[r][3].early
        /\ tasks[r][2].early
        /\ resp[r].frames[1].timestamp > resp[r].frames[2].timestamp
        /\ resp[r].frames[2].timestamp > resp[r].frames[3].timestamp

\* C15: extract_audio on a video whose probed profile has no audio answers
\* with the no-audio-track failure, never invokes the audio extractor and
\* creates neither the temp directory nor a temp file.
C15_RefusedAtProbe ==
    \A r \in Slots :
        (/\ IsTool(r, "extract_audio")
         /\ pc[r] = "getMetadata"
         /\ pc'[r] # "getMetadata"
         /\ files[args[r].videoPath].kind = "video"
         /\ ~files[args[r].videoPath].meta.hasAudio)
        => /\ pc'[r] = "done"
           /\ ~resp'[r].success
           /\ resp'[r].error = "Video does not have an audio track"
           /\ calls'[r].audio = 0
           /\ calls'[r].mkdir = 0
           /\ tempDir' = tempDir
           /\ tempFiles' = tempFiles
           /\ audioFiles' = audioFiles

C15_NothingCreated ==
    \A r \in Slots :
        (IsTool(r, "extract_audio") /\ Done(r) /\ ~resp[r].success
         /\ resp[r].error = "Video does not have an audio track")
        => /\ calls[r].audio = 0
           /\ calls[r].mkdir = 0
           /\ (\A q \in Slots \ {r} : args[q].tool = "none") =>
                 /\ tempDir = FALSE
                 /\ NoTempFiles
                 /\ \A t \in DOMAIN audioFiles : audioFiles[t] = NoFrame

\* C15: the refusal at the probe, and nothing invoked or created by the refused call.
C15_NoAudioTrack == [](C15_NothingCreated) /\ [][C15_RefusedAtProbe]_vars

C15_Witness ==
    \E r \in Slots :
        /\ IsTool(r, "extract_audio")
        /\ Done(r)
        /\ ~resp[r].success
        /\ resp[r].error = "Video does not have an audio track"
        /\ calls[r].probe = 1
        /\ args[r].videoPath = "b.mp4"
        /\ tempDir = FALSE

\* C16: for each of the seven tools, when the path names no accessible file
\* the handler answers success = false with an error naming the path, having
\* made no prober, decoder, codec or extractor call, created no temp file and
\* left the frame cache as it was; no collaborator is called before the
\* existence check has answered.
SevenTools ==
    {"get_video_overview", "get_video_metadata", "estimate_analysis_cost", "get_frame",
     "get_frames_batch", "extract_audio", "analyze_video_full"}

C16_MissingFileStep ==
    \A r \in Slots :
        (/\ args[r].tool \in SevenTools
         /\ pc[r] = "checkFile"
         /\ pc'[r] # "checkFile"
         /\ files[args[r].videoPath].kind = "absent")
        => /\ pc'[r] = "done"
           /\ ~resp'[r].success
           /\ resp'[r].error = "File not found"
           /\ resp'[r].path = args[r].videoPath
           /\ calls'[r] = [NoCalls EXCEPT !.access = 1]
           /\ tasks'[r] = <<>>
           /\ frameCache' = frameCache
           /\ tempDir' = tempDir
           /\ tempFiles' = tempFiles
           /\ frameDirs' = frameDirs
           /\ audioFiles' = audioFiles

C16_CheckComesFirst ==
    \A r \in Slots :
        /\ pc[r] = "checkFile" => calls[r] = NoCalls
        /\ (Done(r) /\ ~resp[r].success /\ resp[r].error = "File not found") =>
              /\ calls[r] = [NoCalls EXCEPT !.access = 1]
              /\ tasks[r] = <<>>
              /\ frameCache = [p \in AllPaths |-> <<>>]
              /\ tempDir = FALSE
              /\ NoTempFiles

\* C16: the missing-file answer of every tool, before any collaborator call.
C16_MissingFile == [](C16_CheckComesFirst) /\ [][C16_MissingFileStep]_vars

\* The file was there at Init and was removed before analyze_video_full checked.
C16_Witness ==
    \E r \in Slots :
        /\ IsTool(r, "analyze_video_full")
        /\ Done(r)
        /\ ~resp[r].success
        /\ resp[r].error = "File not found"
        /\ resp[r].path = "a.mp4"
        /\ files["a.mp4"].kind = "absent"

\* C17, as stated: every finished call has an envelope, and when any
\* collaborator (prober, decoder, codec, audio extractor) failed during the
\* call the envelope has success = false, an error text and no data.
ErrorEnvelope(e) ==
    /\ ~e.success
    /\ "error" \in DOMAIN e
    /\ DOMAIN e \subseteq {"success", "error", "path", "isError"}

C17_AnyFailureFailsCall ==
    \A r \in Slots :
        Done(r) =>
            /\ resp[r] # NoResp
            /\ calls[r].failed # {} => ErrorEnvelope(resp[r])

\* C17, amended: every finished call has an envelope; when the prober, the
\* decoder or the codec failed during the call, or the audio extractor failed
\* in extract_audio, the envelope has success = false, an error text and no
\* data.  (A failure of the audio extractor inside analyze_video_full is
\* tolerated.)
FatalFailures(r) ==
    IF IsTool(r, "analyze_video_full") THEN calls[r].failed \ {"audio"} ELSE calls[r].failed

\* C17 (amended): a failure envelope after every failure that is not the
\* tolerated audio failure of analyze_video_full.
C17_FailureEnvelope ==
    \A r \in Slots :
        Done(r) =>
            /\ resp[r] # NoResp
            /\ "pending" \notin DOMAIN resp[r]
            /\ FatalFailures(r) # {} => ErrorEnvelope(resp[r])
            /\ ~resp[r].success => ErrorEnvelope(resp[r])

\* sharp failed on a frame of analyze_video_full after two frames were done.
C17_Witness ==
    \E r \in Slots :
        /\ IsTool(r, "analyze_video_full")
        /\ Done(r)
        /\ "codec" \in calls[r].failed
        /\ calls[r].codec >= 3
        /\ ErrorEnvelope(resp[r])
        /\ resp[r].isError

\* C18: analyze_video_full never extracts more than 15 frames, whatever
\* maxFrames and frameInterval are: the decoder calls and framesExtracted are
\* at most min(maxFrames, 15), and none when that is not positive.
AnalyzeCap(r) ==
    LET maxFrames == IF args[r].maxFrames = <<>> THEN 8 ELSE args[r].maxFrames[1]
        capped == IF maxFrames < 15 THEN maxFrames ELSE 15
    IN  IF capped > 0 THEN capped ELSE 0

C19_AudioFailureTolerated ==
    \A r \in Slots :
        (IsTool(r, "analyze_video_full") /\ "audio" \in calls[r].failed) =>
            /\ pc[r] \in {"getMetadataSummary", "done"}
            /\ Len(loc[r].frames) = loc[r].totalFrames \/ loc[r].totalFrames < 0
            /\ (Done(r) /\ resp[r].success) =>
                  /\ ~resp[r].audioExtracted
                  /\ resp[r].audioPath = <<>>
                  /\ resp[r].framesExtracted = Len(loc[r].frames)
                  /\ \A k \in 1..Len(loc[r].frames) :
                        /\ resp[r].frames[k].timestamp = loc[r].frames[k].timestamp
                        /\ resp[r].images[k] = loc[r].frames[k].image
            /\ (Done(r) /\ ~resp[r].success) =>
                  /\ "probe" \in calls[r].failed
                  /\ resp[r].error = "metadata"
            /\ (Done(r) /\ "probe" \notin calls[r].failed) => resp[r].success

C19_Witness ==
    \E r \in Slots :
        /\ IsTool(r, "analyze_video_full")
        /\ Done(r)
        /\ resp[r].success
        /\ "audio" \in calls[r].failed
        /\ calls[r].audio = 1
        /\ resp[r].framesExtracted >= 2
        /\ ~resp[r].audioExtracted

\* C20: the contextWarning of an analyze_video_full response is set exactly
\* when the estimated tokens of the frames the call extracted sum to more
\* than 50 000.
C20_WarningMirrorsExtracted ==
    \A r \in Slots :
        (IsTool(r, "analyze_video_full") /\ Done(r) /\ resp[r].success) =>
            LET m == files[args[r].videoPath].meta
                ew == IF m.width < 1920 THEN m.width ELSE 1920
                eh == (2 * ew * m.height + m.width) \div (2 * m.width)
                perFrame == (ew * eh * 133 + 4095) \div 4096
            IN  resp[r].contextWarning <=> (resp[r].framesExtracted * perFrame > 50000)

\* C21: the per-frame estimate is monotonic in the pixel count: of two
\* profiles with positive width and height, the one with at least as many
\* pixels (width * height) never gets the smaller estimate, widths above the
\* 1920 clamp included.
EstimateDone(r) == IsTool(r, "estimate_analysis_cost") /\ Done(r) /\ resp[r].success
Pixels(m) == m.width * m.height

C21_MonotonicInPixels ==
    \A r \in Slots, q \in Slots :
        (EstimateDone(r) /\ EstimateDone(q)) =>
            LET A == files[args[r].videoPath].meta
                B == files[args[q].videoPath].meta
            IN  (A.width > 0 /\ A.height > 0 /\ B.width > 0 /\ B.height > 0
                    /\ Pixels(A) >= Pixels(B)) =>
                resp[r].estimate.tokensPerFrame >= resp[q].estimate.tokensPerFrame

\* C22: a successful estimate_analysis_cost answers with the metadata cost 150,
\* the per-frame cost estimateFrameTokens(width, height) of the profile, the
\* total 150 + frameCount * perFrame, and a warning exactly when that total is
\* above 50 000 (none at exactly 50 000); the call invokes the existence check
\* and the prober once each, no other collaborator, and stores nothing.
C22_EstimateFields ==
    \A r \in Slots :
        EstimateDone(r) =>
            LET m == files[args[r].videoPath].meta
                n == IF args[r].frameCount = <<>> THEN 10 ELSE args[r].frameCount[1]
                ew == IF m.width < 1920 THEN m.width ELSE 1920
                eh == (2 * ew * m.height + m.width) \div (2 * m.width)
                perFrame == (ew * eh * 133 + 4095) \div 4096
                e == resp[r].estimate
            IN  /\ e.metadataTokens = 150
                /\ e.tokensPerFrame = perFrame
                /\ e.totalEstimated = 150 + n * perFrame
                /\ e.warning <=> (150 + n * perFrame > 50000)
                /\ calls[r] = [NoCalls EXCEPT !.access = 1, !.probe = 1]

C22_EstimateStoresNothing ==
    \A r \in Slots :
        (args'[r].tool = "estimate_analysis_cost" /\ pc'[r] # pc[r]) =>
            UNCHANGED <<frameCache, tempDir, tempFiles, frameDirs, audioFiles, files>>

C22_EstimateCost == [](C22_EstimateFields) /\ [][C22_EstimateStoresNothing]_vars

C22_Witness ==
    \E r \in Slots, q \in Slots :
        /\ EstimateDone(r) /\ EstimateDone(q)
        /\ resp[r].estimate.totalEstimated = 50000 /\ ~resp[r].estimate.warning
        /\ resp[q].estimate.totalEstimated > 50000 /\ resp[q].estimate.warning

\* C23: the analysis hints of a metadata summary start with exactly one
\* duration hint chosen by bucket: duration < 30 gives maxFrames 10 with
\* interval max(1, duration / 10); 30 <= duration < 300 gives maxFrames 15 with
\* interval floor(duration / 15); duration >= 300 gives maxFrames 20 with
\* interval floor(duration / 20).  A resolution hint follows exactly when
\* width > 1920, then an audio hint exactly when audio is present.
MetadataDone(r) == IsTool(r, "get_video_metadata") /\ Done(r) /\ resp[r].success
\* The fraction i = <<numerator, denominator>> equals num / den.
IsFraction(i, num, den) == i[2] > 0 /\ i[1] * den = i[2] * num

C23_AnalysisHints ==
    \A r \in Slots :
        MetadataDone(r) =>
            LET m == files[args[r].videoPath].meta
                d == m.duration
                h == resp[r].analysisHints
                aspects == [k \in 1..Len(h) |-> h[k].aspect]
            IN  /\ aspects = <<"duration">>
                        \o (IF m.width > 1920 THEN <<"resolution">> ELSE <<>>)
                        \o (IF m.hasAudio THEN <<"audio">> ELSE <<>>)
                /\ d < 30 * DurScale =>
                        /\ h[1].maxFrames = 10
                        /\ IF d <= 10 * DurScale THEN IsFraction(h[1].interval, 1, 1)
                           ELSE IsFraction(h[1].interval, d, 10 * DurScale)
                /\ (30 * DurScale <= d /\ d < 300 * DurScale) =>
                        /\ h[1].maxFrames = 15
                        /\ IsFraction(h[1].interval, d \div (15 * DurScale), 1)
                /\ d >= 300 * DurScale =>
                        /\ h[1].maxFrames = 20
                        /\ IsFraction(h[1].interval, d \div (20 * DurScale), 1)

C23_Witness ==
    \E r \in Slots :
        /\ MetadataDone(r)
        /\ Len(resp[r].analysisHints) = 3
        /\ files[args[r].videoPath].meta.duration = 25 * DurScale
        /\ resp[r].analysisHints[1].interval[1] * 2 = resp[r].analysisHints[1].interval[2] * 5

\* C24 as stated: for a profile of 45 s the duration hint recommends 10 frames
\* with the interval max(1, 45 / 10) = 4.5.
C24_FortyFiveSecondsShort ==
    \A r \in Slots :
        (MetadataDone(r) /\ files[args[r].videoPath].meta.duration = 45 * DurScale) =>
            /\ resp[r].analysisHints[1].maxFrames = 10
            /\ IsFraction(resp[r].analysisHints[1].interval, 9, 2)

\* C24, amended: for a profile of 45 s the duration hint recommends 15 frames
\* with the whole interval floor(45 / 15) = 3; an interval that is not whole
\* comes only from the branch below 30 s, where 25 s gives 10 frames with
\* interval 2.5.
C24_FortyFiveSecondsMedium ==
    \A r \in Slots :
        MetadataDone(r) =>
            LET d == files[args[r].videoPath].meta.duration
                hint == resp[r].analysisHints[1]
            IN  /\ d = 45 * DurScale =>
                    hint.maxFrames = 15 /\ IsFraction(hint.interval, 3, 1)
                /\ d = 25 * DurScale =>
                    hint.maxFrames = 10 /\ IsFraction(hint.interval, 5, 2)
                /\ d >= 30 * DurScale => hint.interval[1] % hint.interval[2] = 0

C24_Witness ==
    \E r \in Slots :
        /\ MetadataDone(r)
        /\ files[args[r].videoPath].meta.duration = 45 * DurScale
        /\ resp[r].analysisHints[1].maxFrames = 15

\* C25: the extractions of one get_frames_batch call, and get_frame calls
\* running at the same time, share no state: two extractions in flight never
\* use the same temporary file path, the image returned for a timestamp is the
\* one decoded for that timestamp, and the cleanup of one extraction never
\* removes the file of another.
InFlight(t) == t.pc \in {"ffmpeg", "readFile", "rm"}
Extractions == {e \in Slots \X (1..MaxTsLen) : e[2] <= Len(tasks[e[1]])}
ExtractionOf(e) == tasks[e[1]][e[2]]

C25_DistinctPaths ==
    \A e \in Extractions, f \in Extractions :
        (e # f /\ InFlight(ExtractionOf(e)) /\ InFlight(ExtractionOf(f))) =>
            ExtractionOf(e).framePath # ExtractionOf(f).framePath

C25_OwnImage ==
    \A r \in Slots :
        ((IsTool(r, "get_frame") \/ IsTool(r, "get_frames_batch"))
                /\ Done(r) /\ resp[r].success) =>
            \A k \in 1..Len(tasks[r]) :
                tasks[r][k].image = <<args[r].videoPath, Max(tasks[r][k].timestamp, 0)>>

C25_CleanupOwnFile ==
    \A e \in Extractions, f \in Extractions :
        (/\ e # f
         /\ ExtractionOf(e).pc = "rm" /\ ExtractionOf(e).pc' # "rm"
         /\ ExtractionOf(f).pc = "readFile") =>
            tempFiles'[ExtractionOf(f).framePath] = tempFiles[ExtractionOf(f).framePath]

C25_NoSharedFile == C25_DistinctPaths /\ C25_OwnImage

C25_ExtractionsShareNothing == [](C25_NoSharedFile) /\ [][C25_CleanupOwnFile]_vars

\* C26: without a frameInterval argument, the timestamps analyze_video_full
\* extracts for a profile of duration d and a capped frame count n are the
\* timestamps get_video_overview plans for the same d and n, for every
\* d >= 0, durations that are not whole seconds included.
C26_AnalyzeExtractsThePlan ==
    \A r \in Slots :
        (IsTool(r, "analyze_video_full") /\ Done(r) /\ resp[r].success
                /\ args[r].frameInterval = <<>>) =>
            LET plan == planLoop(files[args[r].videoPath].meta, AnalyzeCap(r), 0, <<>>)
            IN  [k \in 1..Len(resp[r].frames) |-> resp[r].frames[k].timestamp]
                    = [k \in 1..Len(plan) |-> plan[k].timestamp]

\* C27: on every exit path of extractFrames, a failure of the prober after
\* the per-call frame directory was created and a failure of decoding, reading
\* or encoding included, the frame directory and every frame file in it are
\* gone when the call has returned or failed.
C27_FrameDirRemoved ==
    \A r \in Slots :
        (IsTool(r, "analyze_video_full") /\ Done(r)) =>
            \A t \in 0..MaxNow : frameDirs[t] = NoDir

\* C28: a request probes its file exactly once, so every part of one
\* response comes from the same technical profile even when the file changes
\* while the request runs.
ProfileTools ==
    {"get_video_overview", "get_video_metadata", "estimate_analysis_cost", "extract_audio",
     "analyze_video_full"}

C28_SingleProbe ==
    \A r \in Slots :
        (args[r].tool \in ProfileTools /\ Done(r) /\ resp[r].success) => calls[r].probe = 1

C28_OneProfile ==
    \A r \in Slots :
        (Done(r) /\ resp[r].success) =>
            /\ IsTool(r, "get_video_overview") =>
                    resp[r].overview.metadata.hasAudio = resp[r].overview.audio.available
            /\ IsTool(r, "get_video_metadata") =>
                    resp[r].metadata.hasAudio =
                        (\E k \in 1..Len(resp[r].analysisHints) :
                            resp[r].analysisHints[k].aspect = "audio")
            /\ IsTool(r, "analyze_video_full") =>
                    resp[r].video.duration = formatDuration(resp[r].metadata.durationSeconds)

C28_ProbedOnce == C28_SingleProbe /\ C28_OneProfile

\* C29: a cache entry changes only in the step in which a get_video_overview
\* call on that very path returns successfully, and then to the plan that call
\* returns; a failing overview and every step of every other tool leave each
\* entry as it was, and an entry once written is never removed.
C29_CacheFrame ==
    \A p \in AllPaths :
        /\ frameCache'[p] # frameCache[p] =>
              \E r \in Slots :
                  /\ IsOverview(r) /\ args[r].videoPath = p
                  /\ pc[r] # "done" /\ pc'[r] = "done" /\ resp'[r].success
                  /\ frameCache'[p] = <<resp'[r].overview.availableFrames>>
        /\ frameCache[p] # <<>> => frameCache'[p] # <<>>

C29_CacheChangesOnlyByOverview == [][C29_CacheFrame]_vars

C29_Witness ==
    \E r \in Slots, q \in Slots :
        /\ OverviewDone(r) /\ args[r].videoPath = "b.mp4"
        /\ frameCache["b.mp4"] = <<resp[r].overview.availableFrames>>
        /\ Done(q) /\ args[q].videoPath = "a.mp4"
        /\ \/ IsOverview(q) /\ ~resp[q].success /\ "probe" \in calls[q].failed
           \/ IsTool(q, "analyze_video_full") /\ resp[q].success
        /\ frameCache["a.mp4"] = <<>>

\* C30: for one profile and one whole frameCount >= 0, the estimated tokens of
\* the frames get_video_overview plans never sum to more than the total of
\* estimate_analysis_cost, so whenever the overview carries the warning hint
\* the estimate carries its warning too.
HasWarningHint(r) ==
    \E k \in 1..Len(resp[r].contextHints) : resp[r].contextHints[k].type = "warning"

C30_OverviewWarningImpliesEstimateWarning ==
    \A r \in Slots, q \in Slots :
        (/\ OverviewDone(r) /\ EstimateDone(q)
         /\ args[r].videoPath = args[q].videoPath
         /\ args[r].frameCount = args[q].frameCount
         /\ frameCountOf(args[r].frameCount) >= 0) =>
            /\ SumTokens(FramesOf(r)) <= resp[q].estimate.totalEstimated
            /\ HasWarningHint(r) => resp[q].estimate.warning

C30_Witness ==
    \E r \in Slots, q \in Slots :
        /\ OverviewDone(r) /\ EstimateDone(q)
        /\ args[r].videoPath = args[q].videoPath
        /\ args[r].frameCount = args[q].frameCount
        /\ HasWarningHint(r)
        /\ SumTokens(FramesOf(r)) > 50000
        /\ resp[q].estimate.warning

====
